---- MODULE Spec2Model ----
(***************************************************************************)
(* Model of the procure-ai supplier discovery core:                        *)
(*   app/utils/cache.py          InMemoryCache                             *)
(*   app/utils/rate_limiter.py   RateLimiter, rate_limit decorator         *)
(*   app/services/supplier_agent.py  SupplierAgent._verify_suppliers       *)
(*   app/services/llm_service.py     LLMService.verify_supplier_data       *)
(*   app/services/search_service.py  SearchService.search_suppliers        *)
(* Each component has its own next-state relation and specification; the   *)
(* variables of the other components keep their initial values.            *)
(* Time is an integer clock (time.time()) advanced by Tick.                *)
(***************************************************************************)
EXTENDS Integers, Sequences, FiniteSets, TLC

\* ------------------------------------------------------------------ bounds
MaxTime == 4
MaxCalls == 4
MaxRequests == 2
WindowSeconds == 2
EndpointLimit == 2
EndpointWindow == 2

Keys == {"k1", "k2"}
Values == {"v1", "v2"}
TTLs == {0, 1, 2}

\* Python's None where a string is expected
None == "None"
\* Optional[float]: None is the empty sequence, a number x is <<x>>
NoNumber == << >>
Some(x) == <<x>>
\* no object yet / the exception object SupplierInfo(...) raises
NoResult == [none |-> TRUE]
ValidationError == [error |-> "ValidationError"]
\* the result of InMemoryCache.get on a miss (None)
Miss == None

\* ------------------------------------------------------------------ floats
\* Python's float is an IEEE 754 double: the scores are computed with it and
\* sorted by it, so sums that are equal as decimals can differ in the last
\* bit (0.7 + 0.1 < 0.5 + 0.3).  A double is kept here as m * 2^e with
\* 2^52 <= m < 2^53 (zero: m = 0), m as a natural number of any size: a
\* little-endian sequence of limbs below LimbBase without leading zero limbs.
\* Every operation computes the exact result and rounds it to the nearest
\* double, ties to even, as the hardware does.
LimbBits == 15
MantissaBits == 53

Pow2(k) == 2 ^ k
LimbBase == Pow2(LimbBits)

RECURSIVE Trim(_)
Trim(n) == IF n # << >> /\ n[Len(n)] = 0 THEN Trim(SubSeq(n, 1, Len(n) - 1)) ELSE n

RECURSIVE FromNat(_)
FromNat(k) == IF k = 0 THEN << >> ELSE <<k % LimbBase>> \o FromNat(k \div LimbBase)
RECURSIVE ToNat(_)
ToNat(n) == IF n = << >> THEN 0 ELSE Head(n) + LimbBase * ToNat(Tail(n))

RECURSIVE AddCarry(_, _, _)
AddCarry(a, b, c) ==
    IF a = << >> /\ b = << >> THEN (IF c = 0 THEN << >> ELSE <<c>>)
    ELSE LET s == (IF a = << >> THEN 0 ELSE Head(a)) + (IF b = << >> THEN 0 ELSE Head(b)) + c
         IN <<s % LimbBase>> \o AddCarry(IF a = << >> THEN a ELSE Tail(a),
                                         IF b = << >> THEN b ELSE Tail(b), s \div LimbBase)
BigAdd(a, b) == AddCarry(a, b, 0)

RECURSIVE MulLimbCarry(_, _, _)
MulLimbCarry(a, d, c) ==
    IF a = << >> THEN (IF c = 0 THEN << >> ELSE <<c>>)
    ELSE LET p == Head(a) * d + c
         IN <<p % LimbBase>> \o MulLimbCarry(Tail(a), d, p \div LimbBase)
\* a * d for a limb d
MulLimb(a, d) == IF d = 0 THEN << >> ELSE MulLimbCarry(a, d, 0)

RECURSIVE BigMul(_, _)
BigMul(a, b) ==
    IF b = << >> THEN << >>
    ELSE LET rest == BigMul(a, Tail(b))
         IN BigAdd(MulLimb(a, Head(b)), IF rest = << >> THEN << >> ELSE <<0>> \o rest)

RECURSIVE BitLenLimb(_)
BitLenLimb(d) == IF d = 0 THEN 0 ELSE 1 + BitLenLimb(d \div 2)
BitLen(n) == IF n = << >> THEN 0 ELSE (Len(n) - 1) * LimbBits + BitLenLimb(n[Len(n)])

\* n * 2^k
ShiftLeft(n, k) ==
    IF n = << >> THEN << >>
    ELSE [i \in 1..(k \div LimbBits) |-> 0] \o MulLimb(n, Pow2(k % LimbBits))

RECURSIVE DivLimbFrom(_, _, _, _)
\* short division from limb i down with remainder r carried in
DivLimbFrom(n, d, i, r) ==
    IF i = 0 THEN [q |-> << >>, r |-> r]
    ELSE LET cur == r * LimbBase + n[i]
             low == DivLimbFrom(n, d, i - 1, cur % d)
         IN [q |-> Append(low.q, cur \div d), r |-> low.r]
TrimQuotient(whole) == [q |-> Trim(whole.q), r |-> whole.r]
\* quotient and remainder of n by d, 0 < d <= LimbBase
DivModLimb(n, d) == TrimQuotient(DivLimbFrom(n, d, Len(n), 0))

\* the limbs of n above the lowest `limbs` ones
UpperLimbs(n, limbs) == IF limbs >= Len(n) THEN << >> ELSE SubSeq(n, limbs + 1, Len(n))
\* whether the lowest `limbs` limbs of n are all zero
LowerLimbsZero(n, limbs) ==
    \A i \in 1..(IF limbs > Len(n) THEN Len(n) ELSE limbs) : n[i] = 0
Shifted(dm, lowerZero) == [q |-> dm.q, exact |-> dm.r = 0 /\ lowerZero]
\* floor(n / 2^k), and whether the bits dropped are all zero
ShiftRight(n, k) ==
    Shifted(DivModLimb(UpperLimbs(n, k \div LimbBits), Pow2(k % LimbBits)),
            LowerLimbsZero(n, k \div LimbBits))

\* top is n shifted right by k - 1: the lowest bit kept is the half bit
HalfOf(top) ==
    IF top.q = << >> \/ Head(top.q) % 2 = 0 THEN -1 ELSE IF top.exact THEN 0 ELSE 1
\* n mod 2^k against 2^(k-1), k > 0: -1 below, 0 equal, 1 above
HalfCompare(n, k) == HalfOf(ShiftRight(n, k - 1))

RECURSIVE BigLessFrom(_, _, _)
BigLessFrom(a, b, i) ==
    IF i = 0 THEN FALSE
    ELSE IF a[i] # b[i] THEN a[i] < b[i] ELSE BigLessFrom(a, b, i - 1)
BigLess(a, b) == IF Len(a) # Len(b) THEN Len(a) < Len(b) ELSE BigLessFrom(a, b, Len(a))

FloatZero == [m |-> << >>, e |-> 0]

\* a mantissa that rounding up carried to one bit too many loses it again
Renormalised(m, e) ==
    IF BitLen(m) > MantissaBits THEN [m |-> ShiftRight(m, 1).q, e |-> e + 1]
    ELSE [m |-> m, e |-> e]
\* q * 2^e with the dropped bits at h against a half: up above a half, and
\* at a half when q is odd
Rounded(q, h, e) ==
    Renormalised(IF h = 1 \/ (h = 0 /\ Head(q) % 2 = 1) THEN BigAdd(q, <<1>>) ELSE q, e)
\* n * 2^e rounded to the nearest double, ties to even
RoundToFloat(n, e) ==
    IF n = << >> THEN FloatZero
    ELSE IF BitLen(n) <= MantissaBits
         THEN [m |-> ShiftLeft(n, MantissaBits - BitLen(n)),
               e |-> e - (MantissaBits - BitLen(n))]
         ELSE Rounded(ShiftRight(n, BitLen(n) - MantissaBits).q,
                      HalfCompare(n, BitLen(n) - MantissaBits),
                      e + (BitLen(n) - MantissaBits))

\* float(k) for an int k >= 0
FloatFromInt(k) == RoundToFloat(FromNat(k), 0)
\* a * b
FloatMul(a, b) == RoundToFloat(BigMul(a.m, b.m), a.e + b.e)
\* a + b for a.e >= b.e: a's mantissa is brought to b's exponent
AddAligned(a, b) == RoundToFloat(BigAdd(ShiftLeft(a.m, a.e - b.e), b.m), b.e)
\* a + b
FloatAdd(a, b) ==
    IF a.m = << >> THEN b ELSE IF b.m = << >> THEN a
    ELSE IF a.e >= b.e THEN AddAligned(a, b) ELSE AddAligned(b, a)
\* the quotient bits kept beyond the mantissa before rounding
GuardBits == 18
\* the quotient with one more bit below it: 1 when there is a remainder
WithSticky(dm) == BigAdd(MulLimb(dm.q, 2), IF dm.r = 0 THEN << >> ELSE <<1>>)
\* a / d for a whole number 0 < d < LimbBase: the quotient to GuardBits more
\* bits than the divisor has, one sticky bit for a remainder, then rounded
FloatDivInt(a, d) ==
    RoundToFloat(WithSticky(DivModLimb(ShiftLeft(a.m, GuardBits), d)), a.e - GuardBits - 1)
\* a < b
FloatLess(a, b) ==
    IF b.m = << >> THEN FALSE ELSE IF a.m = << >> THEN TRUE
    ELSE IF a.e # b.e THEN a.e < b.e ELSE BigLess(a.m, b.m)
\* min(a, b): b when b < a, a otherwise
FloatMin(a, b) == IF FloatLess(b, a) THEN b ELSE a
\* the float a decimal literal k/scale denotes (the double nearest to it)
Decimal(k, scale) == FloatDivInt(FloatFromInt(k), scale)
FloatOne == FloatFromInt(1)

\* the whole number nearest to a * scale (halves upward), a * scale < 2^31
NearestWhole(n, e) ==
    IF e >= 0 THEN ToNat(ShiftLeft(n, e))
    ELSE ToNat(ShiftRight(n, -e).q) + (IF HalfCompare(n, -e) >= 0 THEN 1 ELSE 0)
Nearest(a, scale) == NearestWhole(BigMul(a.m, FromNat(scale)), a.e)

VARIABLES
    now,        \* time.time()
    cache,      \* InMemoryCache.cache: key -> [value, expires, created]
    lastSet,    \* history: per key, the most recent set since the last delete/clear
    cacheOp,    \* history: the cache operation just performed and its result
    requests,   \* RateLimiter.requests: key -> deque of admitted timestamps
    attempts,   \* history: per key, every is_allowed call as [t, ok]
    rlOp,       \* history: the limiter operation just performed and its result
    epLog,      \* history: per key, every call of the wrapped endpoint as [t, status]
    epOp,       \* history: the endpoint call just performed and its response
    vPc,        \* _verify_suppliers: "idle", "gather", "sleep" or "done"
    vCands,     \* _verify_suppliers: supplier_candidates
    vI,         \* _verify_suppliers: loop variable i (start of the current batch)
    vTasks,     \* per candidate, its verify_supplier_data call: [st, res, how]
    vOut,       \* _verify_suppliers: verified_suppliers
    vRet,       \* _verify_suppliers: the returned list (NoResult before the return)
    ePc,        \* verify_supplier_data: "idle", "primary", "secondary" or "done"
    eCand,      \* verify_supplier_data: supplier_info
    eLog,       \* history: provider calls made and what came back, in order
    eRes,       \* verify_supplier_data: its outcome [kind, val]
    ePrev,      \* history: the latest earlier call that returned an enriched record
    sPc,        \* search_suppliers: "idle", "searching", "sleeping" or "done"
    sQ,         \* search_suppliers: the number of words of the cleaned query
    sMax,       \* search_suppliers: max_results
    sIdx,       \* search_suppliers: the variant the loop is at (1..5)
    sAll,       \* search_suppliers: all_results
    sCalls,     \* history: the provider calls made, [variant, outcome]
    sRet,       \* search_suppliers: the returned list
    sStart,     \* history: the time the latest provider call was issued
    sEnd,       \* history: the time the latest finished provider call ended
    dPc,        \* discover_suppliers: "idle", "search", "verify" or "done"
    dReq,       \* discover_suppliers: request
    dHits,      \* discover_suppliers: search_results
    dCands,     \* discover_suppliers: supplier_candidates
    dVerified,  \* discover_suppliers: verified_suppliers
    dFiltered,  \* discover_suppliers: filtered_suppliers
    dRanked,    \* discover_suppliers: ranked_suppliers
    dRaised,    \* history: the stage that raised, "none" when no stage did
    dResps,     \* history: per candidate, what the two providers did
    dRet,       \* discover_suppliers: its outcome [kind, val]
    vCancel,    \* history: the cancellation of the caller, [requested, inflight, batch]
    lkHolder,   \* InMemoryCache.lock: the task that holds it, None when unlocked
    lkWaiters,  \* InMemoryCache.lock: the tasks waiting in acquire, in order
    lkTask,     \* per concurrent caller: [pc, op, plan] of its cache call
    lkSeq,      \* history: the entry map had the calls run one after the other
    lkOp,       \* history: the call that just returned: name, change, result, expected result
    appState,   \* lifespan: "starting", "running", "stopping" or "stopped"
    swPc,       \* cache_cleanup_task: "not_started", "sweeping", "sleeping", "backoff", "ended"
    swWake,     \* the time the task's asyncio.sleep returns
    swHist,     \* history: the outcome of every sweep cycle attempted, in order
    swEnd,      \* how the task ended: "none", "cancelled" or "exception"
    mgr,        \* CacheManager: [hit_count, miss_count, error_count]
    gCall,      \* history: the get_or_set call that returned last, what it did and gave
    gTask,      \* per task, its get_or_set call in progress: where it is and its locals
    gCalls,     \* history: the get_or_set calls made so far
    mgrOp,      \* history: the last invalidate_pattern / reset_stats call
    bucket,     \* TokenBucket: [capacity, refill_rate, tokens, last_refill], NoResult before __init__
    bkHolder,   \* TokenBucket.lock: the task that holds it
    bkWaiters,  \* TokenBucket.lock: the tasks waiting for it, in order
    bkTask,     \* per concurrent caller of consume: [pc, n, before, elapsed]
    bkOp,       \* history: the consume call that just returned
    adaptive,   \* AdaptiveRateLimiter: its fields, NoResult before __init__
    aOp,        \* history: the last record_success / record_error call
    aSteps,     \* history: [ticks, adjustments] counted so far
    rank,       \* the last _rank_suppliers call: [given, request, suppliers, out]
    filt,       \* the last _apply_filters call: [suppliers, request, out]
    llm_cache,  \* src/llm_service.py: cache key -> [data, expires], NoResult when absent
    advOp,      \* the last _enhance_supplier_data_advanced call
    advSteps    \* history: [calls, ticks] counted so far

cacheVars == <<cache, lastSet, cacheOp>>
limiterVars == <<requests, attempts, rlOp>>
endpointVars == <<epLog, epOp>>
verifyVars == <<vPc, vCands, vI, vTasks, vOut, vRet>>
enrichVars == <<ePc, eCand, eLog, eRes, ePrev>>
searchVars == <<sPc, sQ, sMax, sIdx, sAll, sCalls, sRet, sStart, sEnd>>
discoverVars == <<dPc, dReq, dHits, dCands, dVerified, dFiltered, dRanked, dRaised, dResps, dRet>>
\* the components modelled after the search fan-out
cancelVars == <<vCancel>>
lockVars == <<lkHolder, lkWaiters, lkTask, lkSeq, lkOp>>
sweepVars == <<appState, swPc, swWake, swHist, swEnd>>
managerVars == <<mgr, gCall, gTask, gCalls, mgrOp>>
bucketVars == <<bucket, bkHolder, bkWaiters, bkTask, bkOp>>
adaptiveVars == <<adaptive, aOp, aSteps>>
scoringVars == <<rank, filt>>
advancedVars == <<llm_cache, advOp, advSteps>>
laterVars == <<managerVars, bucketVars, adaptiveVars, scoringVars, advancedVars>>
otherVars == <<discoverVars, cancelVars, lockVars, sweepVars, laterVars>>

\* ------------------------------------------------------------ helpers
Max2(a, b) == IF a >= b THEN a ELSE b
Min2(a, b) == IF a <= b THEN a ELSE b

\* del d[k]
Remove(d, k) == [x \in (DOMAIN d) \ {k} |-> d[x]]
\* d[k] = e
Put(d, k, e) == [x \in (DOMAIN d) \cup {k} |-> IF x = k THEN e ELSE d[x]]

\* ------------------------------------------------------------ clock
Tick ==
    /\ now < MaxTime
    /\ now' = now + 1
    /\ cacheOp' = [op |-> "tick"]
    /\ rlOp' = [op |-> "tick"]
    /\ epOp' = [op |-> "tick"]
    /\ UNCHANGED <<cache, lastSet, requests, attempts, epLog, verifyVars, enrichVars, searchVars, otherVars>>

\* =================================================================
\* InMemoryCache (app/utils/cache.py)
\* =================================================================

\* the entry written by set: expires = time.time() + ttl
NewEntry(v, ttl, t) == [value |-> v, expires |-> t + ttl, created |-> t]

IsLiveInclusive(entry, t) == entry.expires >= t
\* get's test: entry['expires'] > time.time()
IsLive(entry, t) == entry.expires > t

ExpiredKeysStrict(c, t) == {k \in DOMAIN c : c[k].expires < t}
\* cleanup_expired's selection: entry['expires'] <= current_time
ExpiredKeys(c, t) == {k \in DOMAIN c : c[k].expires <= t}

NoSet == [set |-> FALSE]

CacheGet(k) ==
    /\ IF k \in DOMAIN cache
       THEN IF IsLive(cache[k], now)
            THEN /\ cacheOp' = [op |-> "get", key |-> k, result |-> cache[k].value]
                 /\ cache' = cache
            ELSE /\ cacheOp' = [op |-> "get", key |-> k, result |-> Miss]
                 /\ cache' = Remove(cache, k)
       ELSE /\ cacheOp' = [op |-> "get", key |-> k, result |-> Miss]
            /\ cache' = cache
    /\ UNCHANGED <<now, lastSet>>

CacheSet(k, v, ttl) ==
    /\ cache' = Put(cache, k, NewEntry(v, ttl, now))
    /\ lastSet' = [lastSet EXCEPT ![k] = [set |-> TRUE, value |-> v, at |-> now, ttl |-> ttl]]
    /\ cacheOp' = [op |-> "set", key |-> k]
    /\ UNCHANGED now

CacheDelete(k) ==
    /\ IF k \in DOMAIN cache
       THEN /\ cache' = Remove(cache, k)
            /\ cacheOp' = [op |-> "delete", key |-> k, result |-> TRUE]
       ELSE /\ cache' = cache
            /\ cacheOp' = [op |-> "delete", key |-> k, result |-> FALSE]
    /\ lastSet' = [lastSet EXCEPT ![k] = NoSet]
    /\ UNCHANGED now

CacheClear ==
    /\ cache' = << >>
    /\ lastSet' = [k \in Keys |-> NoSet]
    /\ cacheOp' = [op |-> "clear"]
    /\ UNCHANGED now

CleanupExpired ==
    /\ cache' = [k \in (DOMAIN cache) \ ExpiredKeys(cache, now) |-> cache[k]]
    /\ cacheOp' = [op |-> "cleanup_expired", removed |-> ExpiredKeys(cache, now)]
    /\ UNCHANGED <<now, lastSet>>

NextCache ==
    \/ \E k \in Keys : CacheGet(k) /\ UNCHANGED <<limiterVars, endpointVars, verifyVars, enrichVars, searchVars, otherVars>>
    \/ \E k \in Keys, v \in Values, ttl \in TTLs :
          CacheSet(k, v, ttl) /\ UNCHANGED <<limiterVars, endpointVars, verifyVars, enrichVars, searchVars, otherVars>>
    \/ \E k \in Keys : CacheDelete(k) /\ UNCHANGED <<limiterVars, endpointVars, verifyVars, enrichVars, searchVars, otherVars>>
    \/ CacheClear /\ UNCHANGED <<limiterVars, endpointVars, verifyVars, enrichVars, searchVars, otherVars>>
    \/ CleanupExpired /\ UNCHANGED <<limiterVars, endpointVars, verifyVars, enrichVars, searchVars, otherVars>>
    \/ Tick

\* =================================================================
\* RateLimiter (app/utils/rate_limiter.py)
\* =================================================================

\* while request_times and request_times[0] < window_start: popleft()
RECURSIVE DropOld(_, _)
DropOldInclusive(q, ws) ==
    IF q # << >> /\ Head(q) <= ws THEN DropOld(Tail(q), ws) ELSE q
DropOld(q, ws) ==
    IF q # << >> /\ Head(q) < ws THEN DropOld(Tail(q), ws) ELSE q

LimitReachedOffByOne(q, max) == Len(q) > max
\* if len(request_times) >= self.max_requests: return False
LimitReached(q, max) == Len(q) >= max

\* is_allowed on one deque: the verdict and the deque it leaves behind
IsAllowedOn(q, t, max, window) ==
    LET pruned == DropOld(q, t - window) IN
    IF LimitReached(pruned, max)
    THEN [ok |-> FALSE, q |-> pruned]
    ELSE [ok |-> TRUE, q |-> Append(pruned, t)]

\* get_reset_time: None without timestamps, else max(0, oldest + window - now)
ResetTimeOn(q, t, window) ==
    IF q = << >> THEN NoNumber ELSE Some(Max2(0, Head(q) + window - t))

RECURSIVE TotalLen(_, _)
\* history bookkeeping: the number of calls logged over a set of keys
TotalLen(log, ks) ==
    IF ks = {} THEN 0
    ELSE LET k == CHOOSE x \in ks : TRUE IN Len(log[k]) + TotalLen(log, ks \ {k})

IsAllowed(k) ==
    /\ TotalLen(attempts, Keys) < MaxCalls
    /\ LET r == IsAllowedOn(requests[k], now, MaxRequests, WindowSeconds) IN
         /\ requests' = [requests EXCEPT ![k] = r.q]
         /\ attempts' = [attempts EXCEPT ![k] = Append(@, [t |-> now, ok |-> r.ok])]
         /\ rlOp' = [op |-> "is_allowed", key |-> k, result |-> r.ok]
    /\ UNCHANGED now

GetResetTime(k) ==
    /\ rlOp' = [op |-> "get_reset_time", key |-> k,
                result |-> ResetTimeOn(requests[k], now, WindowSeconds)]
    /\ UNCHANGED <<now, requests, attempts>>

NextLimiter ==
    \/ \E k \in Keys : IsAllowed(k) /\ UNCHANGED <<cacheVars, endpointVars, verifyVars, enrichVars, searchVars, otherVars>>
    \/ \E k \in Keys : GetResetTime(k) /\ UNCHANGED <<cacheVars, endpointVars, verifyVars, enrichVars, searchVars, otherVars>>
    \/ Tick

\* =================================================================
\* rate_limit decorator (app/utils/rate_limiter.py)
\* =================================================================

\* the RateLimiter constructed inside wrapper: requests = defaultdict(deque)
FreshLimiterRequests == << >>

\* one call of the wrapped endpoint.  positional: the Request object is among
\* *args (otherwise it is passed by keyword and the loop over args misses it)
EndpointCall(k, positional) ==
    /\ TotalLen(epLog, Keys) < MaxCalls
    /\ IF ~positional
       THEN /\ epLog' = [epLog EXCEPT ![k] = Append(@, [t |-> now, status |-> 200])]
            /\ epOp' = [op |-> "call", key |-> k, status |-> 200]
       ELSE LET r == IsAllowedOn(FreshLimiterRequests, now, EndpointLimit, EndpointWindow) IN
            IF ~r.ok
            THEN /\ epLog' = [epLog EXCEPT ![k] = Append(@, [t |-> now, status |-> 429])]
                 /\ epOp' = [op |-> "call", key |-> k, status |-> 429,
                             detail |-> [retry_after |-> ResetTimeOn(r.q, now, EndpointWindow),
                                         limit |-> EndpointLimit,
                                         window |-> EndpointWindow]]
            ELSE /\ epLog' = [epLog EXCEPT ![k] = Append(@, [t |-> now, status |-> 200])]
                 /\ epOp' = [op |-> "call", key |-> k, status |-> 200]
    /\ UNCHANGED now

NextEndpoint ==
    \/ \E k \in Keys, positional \in BOOLEAN :
          EndpointCall(k, positional) /\ UNCHANGED <<cacheVars, limiterVars, verifyVars, enrichVars, searchVars, otherVars>>
    \/ Tick

\* =================================================================
\* LLMService.verify_supplier_data (app/services/llm_service.py)
\* =================================================================

\* dict.get(key, default)
Get(d, key, default) == IF key \in DOMAIN d THEN d[key] ELSE default

\* what a provider call can do: raise, or return one of these texts
\*   "full"     a JSON object with every field of the schema, all valid
\*   "nojson"   text without a {...} object
\*   "badjson"  a {...} span that json.loads rejects
\*   "invalid"  a JSON object whose rating is 0.0 (SupplierInfo wants >= 1.0)
ResponseTexts == {"full", "nojson", "badjson", "invalid"}
Responses == {"raise"} \cup ResponseTexts

\* the literals of SupplierInfo.confidence_score, in ten-thousandths, and the
\* floats they denote; confidence_score is a float, rating is kept in tenths
FallbackConfidence == 3000
DefaultConfidence == 5000
ReportedConfidence == 9000
MaxConfidence == 10000
Confidence(k) == Decimal(k, MaxConfidence)
FallbackConfidenceScore == Confidence(FallbackConfidence)
DefaultConfidenceScore == Confidence(DefaultConfidence)
ReportedConfidenceScore == Confidence(ReportedConfidence)
MaxConfidenceScore == Confidence(MaxConfidence)
Statuses == {"verified", "unverified", "pending", "failed"}

FullPayload ==
    [name |-> "Verified Co", location |-> "Houston, TX",
     confidence_score |-> ReportedConfidenceScore,
     certifications |-> <<"ISO 9001">>, specialties |-> <<"steel">>,
     verification_status |-> "verified", description |-> "verified description",
     rating |-> Some(40)]

\* _parse_supplier_response: the first {...} span through json.loads; {} when
\* there is no span or json.loads raises
ParseSupplierResponse(text) ==
    CASE text = "full" -> FullPayload
      [] text = "invalid" -> [rating |-> Some(0)]
      [] text = "nojson" -> << >>
      [] text = "badjson" -> << >>

\* pydantic validation of SupplierInfo(...); confidence_score: ge=0.0, le=1.0
ValidSupplierInfo(r) ==
    /\ r.name # None
    /\ r.location # None
    /\ ~FloatLess(r.confidence_score, FloatZero)
    /\ ~FloatLess(MaxConfidenceScore, r.confidence_score)
    /\ r.verification_status \in Statuses
    /\ r.rating = NoNumber \/ r.rating[1] \in 10..50

\* _create_supplier_info: the record, or the exception SupplierInfo(...) raises
CreateSupplierInfo(verified, original) ==
    LET r == [name |-> Get(verified, "name", Get(original, "name", "Unknown")),
              website |-> Get(original, "website", None),
              location |-> Get(verified, "location", Get(original, "location", "Unknown")),
              confidence_score |-> Get(verified, "confidence_score", DefaultConfidenceScore),
              certifications |-> Get(verified, "certifications", << >>),
              verification_status |-> Get(verified, "verification_status", "unverified"),
              specialties |-> Get(verified, "specialties", << >>),
              rating |-> Get(verified, "rating", NoNumber),
              description |-> Get(verified, "description", None)]
    IN IF ValidSupplierInfo(r) THEN [kind |-> "returned", val |-> r]
       ELSE [kind |-> "raised", val |-> ValidationError]

FallbackRecord(original) ==
    [name |-> Get(original, "name", "Unknown"),
     website |-> Get(original, "website", None),
     location |-> Get(original, "location", "Unknown"),
     confidence_score |-> FallbackConfidenceScore,
     certifications |-> << >>,
     verification_status |-> "unverified",
     specialties |-> << >>,
     rating |-> NoNumber,
     description |-> None]

CreateFallbackAlwaysRaises(original) ==
    [kind |-> "raised", val |-> ValidationError]
\* _create_fallback_supplier_info called from the outer except handler: the
\* record, or the exception SupplierInfo(...) raises out of the handler
CreateFallbackSupplierInfo(original) ==
    IF ValidSupplierInfo(FallbackRecord(original))
    THEN [kind |-> "returned", val |-> FallbackRecord(original)]
    ELSE [kind |-> "raised", val |-> ValidationError]

\* verify_supplier_data once a provider has returned text: parse it, build the
\* SupplierInfo, and on any exception build the fallback instead
AfterResponse(text, original) ==
    LET made == CreateSupplierInfo(ParseSupplierResponse(text), original) IN
    IF made.kind = "returned"
    THEN [res |-> made, fallback |-> FALSE]
    ELSE [res |-> CreateFallbackSupplierInfo(original), fallback |-> TRUE]

\* one whole verify_supplier_data call, given what the primary does and what
\* the secondary does if it is called: the outcome [kind, val] and how it was
\* reached (the text that was parsed, or "raise" when both providers raised)
VerifySupplierData(original, presp, sresp) ==
    IF presp # "raise"
    THEN [res |-> AfterResponse(presp, original).res, how |-> presp]
    ELSE IF sresp # "raise"
         THEN [res |-> AfterResponse(sresp, original).res, how |-> sresp]
         ELSE [res |-> CreateFallbackSupplierInfo(original), how |-> "raise"]

\* the candidate dicts a single call is tried on: keys may be absent (the
\* tests pass dicts without a description) and the name may be None
EnrichCandidates ==
    {[name |-> n, location |-> l, website |-> "https://supplier.com"] :
        n \in {"Supplier 1", None}, l \in {"Texas", "Location not specified"}}
    \cup
    {[name |-> n, location |-> l, website |-> "https://supplier.com", description |-> d] :
        n \in {"Supplier 1", None}, l \in {"Texas", "Location not specified"},
        d \in {"snippet", ""}}

\* the call that just ended returned a record built from a provider's answer
EnrichedNow ==
    /\ ePc = "done"
    /\ eRes.kind = "returned"
    /\ \A i \in DOMAIN eLog : eLog[i] # "fallback"

\* verify_supplier_data is called (for the first time, or again after the
\* previous call ended): the prompt is built and _query_groq called
EnrichCall(c) ==
    /\ ePc \in {"idle", "done"}
    /\ ePc' = "primary"
    /\ eCand' = c
    /\ eLog' = <<"primary">>
    /\ eRes' = NoResult
    /\ ePrev' = IF EnrichedNow THEN [cand |-> eCand, res |-> eRes.val, at |-> now] ELSE ePrev

\* the call's state after a provider returned text
EnrichFinish(text) ==
    LET a == AfterResponse(text, eCand) IN
    /\ ePc' = "done"
    /\ eRes' = a.res
    /\ eLog' = eLog \o <<text>> \o (IF a.fallback THEN <<"fallback">> ELSE << >>)
    /\ UNCHANGED <<eCand, ePrev>>

\* _query_groq returns or raises (the inner except then calls _query_gemini)
PrimaryReturn(resp) ==
    /\ ePc = "primary"
    /\ IF resp = "raise"
       THEN /\ ePc' = "secondary"
            /\ eLog' = eLog \o <<"raise", "secondary">>
            /\ UNCHANGED <<eCand, eRes, ePrev>>
       ELSE EnrichFinish(resp)

\* _query_gemini returns or raises (the outer except then builds the fallback)
SecondaryReturn(resp) ==
    /\ ePc = "secondary"
    /\ IF resp = "raise"
       THEN /\ ePc' = "done"
            /\ eRes' = CreateFallbackSupplierInfo(eCand)
            /\ eLog' = eLog \o <<"raise", "fallback">>
            /\ UNCHANGED <<eCand, ePrev>>
       ELSE EnrichFinish(resp)

NextEnrich ==
    \/ \E c \in EnrichCandidates :
          EnrichCall(c) /\ UNCHANGED <<now, cacheVars, limiterVars, endpointVars, verifyVars, searchVars, otherVars>>
    \/ \E resp \in Responses :
          PrimaryReturn(resp) /\ UNCHANGED <<now, cacheVars, limiterVars, endpointVars, verifyVars, searchVars, otherVars>>
    \/ \E resp \in Responses :
          SecondaryReturn(resp) /\ UNCHANGED <<now, cacheVars, limiterVars, endpointVars, verifyVars, searchVars, otherVars>>

\* =================================================================
\* SupplierAgent._verify_suppliers (app/services/supplier_agent.py)
\* =================================================================
MaxCandidates == 6
BatchSize == 5

CandidateNames ==
    <<"Supplier 1", "Supplier 2", "Supplier 3", "Supplier 4",
      "Supplier 5", "Supplier 6", "Supplier 7", "Supplier 8">>

\* a candidate as _extract_supplier_info builds it from a result whose
\* snippet names no place (_extract_location gives its sentinel whatever the
\* request asks for); wellFormed = FALSE gives a dict whose name is None (only
\* possible when the caller passes it in)
Candidate(i, wellFormed) ==
    [name |-> IF wellFormed THEN CandidateNames[i] ELSE None,
     website |-> "https://supplier.com",
     location |-> "Location not specified",
     description |-> "snippet"]

\* the inputs tried: every candidate well formed (0), or one ill-formed
\* candidate, third in the list or last
BadChoices(n) == {0} \cup {b \in {3, n} : 1 <= b /\ b <= n}

\* what the providers do in a batch call ("badjson" parses to the same empty
\* payload as "nojson" and is exercised on single calls)
BatchResponses == Responses \ {"badjson"}

\* the secondary provider is called only when the primary raised: what it
\* would have done otherwise is no input of the call
SecondaryResponses(presp) == IF presp = "raise" THEN BatchResponses ELSE {"full"}

\* supplier_candidates[i:i+batch_size], as 1-based indices
BatchOf(i, n) == {j \in 1..n : i < j /\ j <= i + BatchSize}

Resolved(t) == t.st \in {"returned", "raised"}
InFlight(t) == t.st \in {"scheduled", "running"}

GatherDoneOnFirst(tasks, batch) == \E j \in batch : Resolved(tasks[j])
\* await asyncio.gather(*tasks, return_exceptions=True) completes
GatherDone(tasks, batch) == \A j \in batch : Resolved(tasks[j])

CollectKeepsFailures(out, t) == Append(out, t.res)
\* the loop body over batch_results: exceptions are logged and skipped,
\* SupplierInfo results appended
Collect(out, t) ==
    IF t.st = "raised" THEN out
    ELSE IF t.st = "returned" THEN Append(out, t.res)
    ELSE out

RECURSIVE CollectBatch(_, _, _, _)
\* for result in batch_results, in the order of the tasks
CollectBatch(out, tasks, j, last) ==
    IF j > last THEN out
    ELSE CollectBatch(Collect(out, tasks[j]), tasks, j + 1, last)

\* st: "new" (no coroutine yet), "scheduled", "running", "returned", "raised";
\* res: the SupplierInfo or the exception; how: history, see VerifySupplierData
NewTask == [st |-> "new", res |-> NoResult, how |-> "none"]

\* tasks.append(self.llm_service.verify_supplier_data(...)) for the batch, then
\* gather schedules them all
Schedule(tasks, batch) ==
    [j \in DOMAIN tasks |-> IF j \in batch THEN [tasks[j] EXCEPT !.st = "scheduled"]
                            ELSE tasks[j]]

\* _verify_suppliers is called; with no candidate it returns at once
VerifyCall(n, bad) ==
    /\ vPc = "idle"
    /\ vCands' = [j \in 1..n |-> Candidate(j, j # bad)]
    /\ vI' = 0
    /\ vOut' = << >>
    /\ IF n = 0
       THEN /\ vPc' = "done"
            /\ vTasks' = << >>
            /\ vRet' = [kind |-> "returned", val |-> << >>]
       ELSE /\ vPc' = "gather"
            /\ vTasks' = Schedule([j \in 1..n |-> NewTask], BatchOf(0, n))
            /\ vRet' = NoResult

\* the event loop starts a scheduled task (in scheduling order): its
\* verify_supplier_data call begins
TaskStart(j) ==
    /\ vPc = "gather"
    /\ j \in DOMAIN vTasks
    /\ vTasks[j].st = "scheduled"
    /\ \A h \in BatchOf(vI, Len(vCands)) : h < j => vTasks[h].st # "scheduled"
    /\ vTasks' = [vTasks EXCEPT ![j].st = "running"]
    /\ UNCHANGED <<vPc, vCands, vI, vOut, vRet>>

\* a running verify_supplier_data call resolves: it returns its SupplierInfo
\* or raises.  The calls of a batch resolve in any order.
TaskResolve(j, presp, sresp) ==
    /\ vPc = "gather"
    /\ j \in DOMAIN vTasks
    /\ vTasks[j].st = "running"
    /\ LET v == VerifySupplierData(vCands[j], presp, sresp) IN
       vTasks' = [vTasks EXCEPT ![j] = [st |-> v.res.kind, res |-> v.res.val, how |-> v.how]]
    /\ UNCHANGED <<vPc, vCands, vI, vOut, vRet>>

\* gather returns: the results are collected in task order, then sleep(0.5)
BatchCollect ==
    /\ vPc = "gather"
    /\ GatherDone(vTasks, BatchOf(vI, Len(vCands)))
    /\ vOut' = CollectBatch(vOut, vTasks, vI + 1, Min2(vI + BatchSize, Len(vCands)))
    /\ vPc' = "sleep"
    /\ UNCHANGED <<vCands, vI, vTasks, vRet>>

\* sleep(0.5) returns: the next batch is scheduled, or the list is returned
SleepDone ==
    /\ vPc = "sleep"
    /\ vI' = vI + BatchSize
    /\ IF vI + BatchSize < Len(vCands)
       THEN /\ vPc' = "gather"
            /\ vTasks' = Schedule(vTasks, BatchOf(vI + BatchSize, Len(vCands)))
            /\ vRet' = NoResult
       ELSE /\ vPc' = "done"
            /\ vTasks' = vTasks
            /\ vRet' = [kind |-> "returned", val |-> vOut]
    /\ UNCHANGED <<vCands, vOut>>

NextVerify ==
    \/ \E n \in 0..MaxCandidates : \E bad \in BadChoices(n) :
          VerifyCall(n, bad) /\ UNCHANGED <<now, cacheVars, limiterVars, endpointVars, enrichVars, searchVars, otherVars>>
    \/ \E j \in 1..MaxCandidates :
          TaskStart(j) /\ UNCHANGED <<now, cacheVars, limiterVars, endpointVars, enrichVars, searchVars, otherVars>>
    \/ \E j \in 1..MaxCandidates, presp \in BatchResponses :
          \E sresp \in SecondaryResponses(presp) :
             TaskResolve(j, presp, sresp)
             /\ UNCHANGED <<now, cacheVars, limiterVars, endpointVars, enrichVars, searchVars, otherVars>>
    \/ BatchCollect /\ UNCHANGED <<now, cacheVars, limiterVars, endpointVars, enrichVars, searchVars, otherVars>>
    \/ SleepDone /\ UNCHANGED <<now, cacheVars, limiterVars, endpointVars, enrichVars, searchVars, otherVars>>

\* =================================================================
\* SearchService.search_suppliers (app/services/search_service.py)
\* =================================================================

\* the five query variants built for one call
NumVariants == 5
\* the literals of the relevance arithmetic, in thousandths, and the floats
\* they denote; relevance_score is a float
DefaultRelevance == 500
SupplierKeywordBoost == 200
TitleOverlapWeight == 300
SnippetOverlapWeight == 100
MaxRelevance == 1000
RelevanceScale == 1000
Relevance(k) == Decimal(k, RelevanceScale)
DefaultRelevanceScore == Relevance(DefaultRelevance)
SupplierKeywordBoostScore == Relevance(SupplierKeywordBoost)
TitleOverlapScore == Relevance(TitleOverlapWeight)
SnippetOverlapScore == Relevance(SnippetOverlapWeight)
MaxRelevanceScore == Relevance(MaxRelevance)

\* strings whose case and edges matter are sequences of characters
UpperLetters == <<"A", "B", "C", "D", "E", "F", "G", "H", "I", "J", "K", "L", "M",
                  "N", "O", "P", "Q", "R", "S", "T", "U", "V", "W", "X", "Y", "Z">>
LowerLetters == <<"a", "b", "c", "d", "e", "f", "g", "h", "i", "j", "k", "l", "m",
                  "n", "o", "p", "q", "r", "s", "t", "u", "v", "w", "x", "y", "z">>
\* str.lower() of one character: every upper-case letter is lowered
LowerChar(c) ==
    IF \E k \in DOMAIN UpperLetters : UpperLetters[k] = c
    THEN LowerLetters[CHOOSE k \in DOMAIN UpperLetters : UpperLetters[k] = c]
    ELSE c
\* str.lower()
Lower(str) == [i \in DOMAIN str |-> LowerChar(str[i])]

RECURSIVE LStrip(_, _)
\* str.lstrip(chars)
LStrip(str, chars) ==
    IF str # << >> /\ Head(str) \in chars THEN LStrip(Tail(str), chars) ELSE str
RECURSIVE RStrip(_, _)
\* str.rstrip(chars)
RStrip(str, chars) ==
    IF str # << >> /\ str[Len(str)] \in chars
    THEN RStrip(SubSeq(str, 1, Len(str) - 1), chars) ELSE str
\* str.strip(chars)
Strip(str, chars) == RStrip(LStrip(str, chars), chars)

\* the characters str.strip() removes: space, tab, newline, carriage return,
\* form feed, vertical tab and the four separators FS, GS, RS, US
Whitespace == {" ", "\t", "\n", "\r", "\f", "", "", "", "", ""}
\* result.url.lower().strip('/')
NormUrl(url) == Strip(Lower(url), {"/"})
\* result.title.lower().strip()
NormTitle(title) == Strip(Lower(title), Whitespace)

\* the words of the cleaned query: query_terms has q of them
AllTerms == <<"steel", "pipes">>
QueryTerms(q) == {AllTerms[i] : i \in 1..q}

\* what the provider returns for one hit: href and title as character
\* sequences, the words of title and body, and whether the text contains a
\* supplier keyword / a spam indicator
RawA == [href |-> <<"a">>, title |-> <<"t">>, titleTerms |-> {"steel"},
         bodyTerms |-> {"steel", "pipes"}, keyword |-> TRUE, spam |-> FALSE]
RawADupUrl == [href |-> <<"A", "/">>, title |-> <<"u">>, titleTerms |-> {"steel", "pipes"},
               bodyTerms |-> {}, keyword |-> FALSE, spam |-> FALSE]
RawADupTitle == [href |-> <<"b">>, title |-> <<"\t", "T">>, titleTerms |-> {},
                 bodyTerms |-> {"steel", "pipes"}, keyword |-> TRUE, spam |-> FALSE]
RawSpam == [href |-> <<"b", "/", "a">>, title |-> <<"u", "t">>, titleTerms |-> {"steel"},
            bodyTerms |-> {}, keyword |-> TRUE, spam |-> TRUE]
RawC == [href |-> <<"b", "a">>, title |-> <<"t", "t">>, titleTerms |-> {"pipes"},
         bodyTerms |-> {"steel"}, keyword |-> FALSE, spam |-> FALSE]

\* what one provider call can do: raise, or return one of these lists
ResultLists == { << >>, <<RawA, RawSpam>>, <<RawADupUrl, RawC>>, <<RawADupTitle>> }
SearchOutcomes == {[raised |-> TRUE, items |-> << >>]}
                  \cup {[raised |-> FALSE, items |-> l] : l \in ResultLists}

\* SearchResult(title=..., url=..., snippet=..., relevance_score=0.5)
ToSearchResult(raw) ==
    [url |-> raw.href, title |-> raw.title, titleTerms |-> raw.titleTerms,
     snippetTerms |-> raw.bodyTerms, keyword |-> raw.keyword, spam |-> raw.spam,
     relevance_score |-> DefaultRelevanceScore]

\* _execute_search: the provider's hits as SearchResults; any exception of
\* the provider call is caught and an empty list returned
ExecuteSearch(outcome) ==
    IF outcome.raised
    THEN [raised |-> FALSE, results |-> << >>]
    ELSE [raised |-> FALSE,
          results |-> [i \in DOMAIN outcome.items |-> ToSearchResult(outcome.items[i])]]

ExtendedReplaces(all, results) == results
\* all_results.extend(results)
Extended(all, results) == all \o results

RECURSIVE DedupFrom(_, _, _, _)
DedupFromUrlOnly(results, seenUrls, seenTitles, unique) ==
    IF results = << >> THEN unique
    ELSE LET r == Head(results)
             u == NormUrl(r.url)
             t == NormTitle(r.title)
         IN IF u \notin seenUrls
            THEN DedupFrom(Tail(results), seenUrls \cup {u}, seenTitles \cup {t},
                           Append(unique, r))
            ELSE DedupFrom(Tail(results), seenUrls, seenTitles, unique)
\* the loop of _deduplicate_results over the rest of the list
DedupFrom(results, seenUrls, seenTitles, unique) ==
    IF results = << >> THEN unique
    ELSE LET r == Head(results)
             u == NormUrl(r.url)
             t == NormTitle(r.title)
         IN IF u \notin seenUrls /\ t \notin seenTitles
            THEN DedupFrom(Tail(results), seenUrls \cup {u}, seenTitles \cup {t},
                           Append(unique, r))
            ELSE DedupFrom(Tail(results), seenUrls, seenTitles, unique)
\* _deduplicate_results
DeduplicateResults(results) == DedupFrom(results, {}, {}, << >>)

\* _is_spam_or_irrelevant
IsSpamOrIrrelevant(r) == r.spam

\* min(result.relevance_score + 0.2, 1.0)
KeywordBoosted(score) ==
    FloatMin(FloatAdd(score, SupplierKeywordBoostScore), MaxRelevanceScore)
\* the same for the score every SearchResult starts with, computed once
DefaultBoostedScore == KeywordBoosted(DefaultRelevanceScore)

RECURSIVE FilterSupplierResults(_)
\* _filter_supplier_results: boost hits with a supplier keyword, drop spam
FilterSupplierResults(results) ==
    IF results = << >> THEN << >>
    ELSE LET r == Head(results)
             b == IF r.keyword
                  THEN [r EXCEPT !.relevance_score =
                           IF @ = DefaultRelevanceScore THEN DefaultBoostedScore
                           ELSE KeywordBoosted(@)]
                  ELSE r
         IN (IF IsSpamOrIrrelevant(b) THEN << >> ELSE <<b>>)
            \o FilterSupplierResults(Tail(results))

\* min(score + (title_overlap * 0.3 + snippet_overlap * 0.1) / len(query_terms), 1.0)
RescoredScore(score, titleOverlap, snippetOverlap, q) ==
    LET boost == FloatDivInt(FloatAdd(FloatMul(FloatFromInt(titleOverlap), TitleOverlapScore),
                                      FloatMul(FloatFromInt(snippetOverlap), SnippetOverlapScore)),
                             q)
    IN FloatMin(FloatAdd(score, boost), MaxRelevanceScore)

\* the scores of the results search_suppliers ranks, computed once: a result
\* enters _rank_results with the default score or the boosted one
RescoreKeys ==
    {<<score, t, s, q>> : score \in {DefaultRelevanceScore, DefaultBoostedScore},
                          t \in 0..Len(AllTerms), s \in 0..Len(AllTerms), q \in 1..Len(AllTerms)}
RescoreTable == [k \in RescoreKeys |-> RescoredScore(k[1], k[2], k[3], k[4])]

\* the score _rank_results gives one result (q = len(query_terms) > 0)
Rescored(r, q) ==
    LET titleOverlap == Cardinality(QueryTerms(q) \cap r.titleTerms)
        snippetOverlap == Cardinality(QueryTerms(q) \cap r.snippetTerms)
        k == <<r.relevance_score, titleOverlap, snippetOverlap, q>>
    IN [r EXCEPT !.relevance_score =
           IF k \in RescoreKeys THEN RescoreTable[k]
           ELSE RescoredScore(r.relevance_score, titleOverlap, snippetOverlap, q)]

RECURSIVE InsertByScore(_, _)
\* r placed behind every element whose score is >= its own
InsertByScore(sorted, r) ==
    IF sorted = << >> THEN <<r>>
    ELSE IF ~FloatLess(Head(sorted).relevance_score, r.relevance_score)
         THEN <<Head(sorted)>> \o InsertByScore(Tail(sorted), r)
         ELSE <<r>> \o sorted
RECURSIVE SortedByScore(_)
\* sorted(results, key=relevance_score, reverse=True): descending and stable
SortedByScore(results) ==
    IF results = << >> THEN << >>
    ELSE InsertByScore(SortedByScore(SubSeq(results, 1, Len(results) - 1)),
                       results[Len(results)])

\* _rank_results: dividing by len(query_terms) = 0 raises for the first result
RankResults(results, q) ==
    IF results # << >> /\ q = 0
    THEN [kind |-> "raised", val |-> << >>]
    ELSE [kind |-> "returned",
          val |-> SortedByScore([i \in DOMAIN results |-> Rescored(results[i], q)])]

\* the tail of search_suppliers: dedup, filter, rank, [:max_results]; the
\* outer except turns any exception into []
Finish(all, q, max) ==
    LET ranked == RankResults(FilterSupplierResults(DeduplicateResults(all)), q) IN
    IF ranked.kind = "raised" THEN << >>
    ELSE SubSeq(ranked.val, 1, Min2(max, Len(ranked.val)))

\* the number of words in the cleaned query / the max_results argument
QueryTermCounts == {0, 2}
MaxResultsChoices == {1, 3}

\* settings.search_rate_limit_delay, in seconds
RateLimitDelay == 1
\* how long one provider call can take, in seconds
ProviderDurations == {0, 1}

WakeTimeNoDelay(t) == t
\* await asyncio.sleep(self.rate_limit_delay) begun at t is over at
WakeTime(t) == t + RateLimitDelay

\* search_suppliers is called: the variants are built, the first is searched
SearchCall(q, max) ==
    /\ sPc = "idle"
    /\ sPc' = "searching"
    /\ sQ' = q
    /\ sMax' = max
    /\ sIdx' = 1
    /\ sAll' = << >>
    /\ sCalls' = << >>
    /\ sRet' = NoResult
    /\ sStart' = now
    /\ sEnd' = now
    /\ UNCHANGED now

\* the loop moves on from variant sIdx: the next variant, or the tail
Advance(all) ==
    IF sIdx < NumVariants
    THEN /\ sIdx' = sIdx + 1
         /\ sPc' = "searching"
         /\ sRet' = sRet
    ELSE /\ sIdx' = sIdx
         /\ sPc' = "done"
         /\ sRet' = [kind |-> "returned", val |-> Finish(all, sQ, sMax)]

\* the provider call of variant sIdx ends after d seconds; the results are
\* appended and the pacing sleep begins (an exception out of _execute_search
\* would skip both)
ProviderReturn(outcome, d) ==
    /\ sPc = "searching"
    /\ now' = now + d
    /\ sEnd' = now'
    /\ sStart' = sStart
    /\ sCalls' = Append(sCalls, [variant |-> sIdx, outcome |-> outcome])
    /\ LET r == ExecuteSearch(outcome) IN
       IF r.raised
       THEN /\ sAll' = sAll
            /\ Advance(sAll)
       ELSE /\ sAll' = Extended(sAll, r.results)
            /\ sPc' = "sleeping"
            /\ UNCHANGED <<sIdx, sRet>>
    /\ UNCHANGED <<sQ, sMax>>

\* asyncio.sleep(rate_limit_delay) returns; the next variant, if any, is
\* issued at once
SleepReturn ==
    /\ sPc = "sleeping"
    /\ now' = WakeTime(sEnd)
    /\ sStart' = IF sIdx < NumVariants THEN now' ELSE sStart
    /\ sEnd' = sEnd
    /\ Advance(sAll)
    /\ UNCHANGED <<sQ, sMax, sAll, sCalls>>

NextSearch ==
    \/ \E q \in QueryTermCounts, max \in MaxResultsChoices :
          SearchCall(q, max)
             /\ UNCHANGED <<cacheVars, limiterVars, endpointVars, verifyVars, enrichVars, otherVars>>
    \/ \E outcome \in SearchOutcomes, d \in ProviderDurations :
          ProviderReturn(outcome, d)
             /\ UNCHANGED <<cacheVars, limiterVars, endpointVars, verifyVars, enrichVars, otherVars>>
    \/ SleepReturn
          /\ UNCHANGED <<cacheVars, limiterVars, endpointVars, verifyVars, enrichVars, otherVars>>

RECURSIVE AggregateIn(_, _, _)
\* all_results when the result lists of the first n calls are appended in the
\* order p
AggregateIn(p, calls, n) ==
    IF n = 0 THEN << >>
    ELSE Extended(AggregateIn(p, calls, n - 1), ExecuteSearch(calls[p[n]].outcome).results)

\* the provider calls of the aggregation runs take no time
InstantProvider == 0

\* search_suppliers step by step, as in NextSearch, with instant provider calls
NextAggregate ==
    \/ \E q \in QueryTermCounts, max \in MaxResultsChoices :
          SearchCall(q, max)
             /\ UNCHANGED <<cacheVars, limiterVars, endpointVars, verifyVars, enrichVars, otherVars>>
    \/ \E outcome \in SearchOutcomes :
          ProviderReturn(outcome, InstantProvider)
             /\ UNCHANGED <<cacheVars, limiterVars, endpointVars, verifyVars, enrichVars, otherVars>>
    \/ SleepReturn
          /\ UNCHANGED <<cacheVars, limiterVars, endpointVars, verifyVars, enrichVars, otherVars>>

\* =================================================================
\* SupplierAgent.discover_suppliers (app/services/supplier_agent.py)
\* =================================================================

\* the characters of the strings the pipeline looks into
Chars(str) ==
    CASE str = "Texas" ->
           <<"T", "e", "x", "a", "s">>
      [] str = "California" ->
           <<"C", "a", "l", "i", "f", "o", "r", "n", "i", "a">>
      [] str = "Location not specified" ->
           <<"L", "o", "c", "a", "t", "i", "o", "n", " ", "n", "o", "t", " ", "s", "p", "e", "c", "i", "f", "i", "e", "d">>
      [] str = "Houston, TX" ->
           <<"H", "o", "u", "s", "t", "o", "n", ",", " ", "T", "X">>
      [] str = "Unknown" ->
           <<"U", "n", "k", "n", "o", "w", "n">>
      [] str = "Acme Steel Inc" ->
           <<"A", "c", "m", "e", " ", "S", "t", "e", "e", "l", " ", "I", "n", "c">>
      [] str = "Bolt Corp" ->
           <<"B", "o", "l", "t", " ", "C", "o", "r", "p">>
      [] str = "ab" ->
           <<"a", "b">>
      [] str = "Verified Co" ->
           <<"V", "e", "r", "i", "f", "i", "e", "d", " ", "C", "o">>
      [] str = "ISO 9001" ->
           <<"I", "S", "O", " ", "9", "0", "0", "1">>
      [] str = "iso 9001" ->
           <<"i", "s", "o", " ", "9", "0", "0", "1">>
      [] str = "CE" ->
           <<"C", "E">>
      [] str = "steel" ->
           <<"s", "t", "e", "e", "l">>
      [] str = "steel pipes" ->
           <<"s", "t", "e", "e", "l", " ", "p", "i", "p", "e", "s">>
      [] str = "verified description" ->
           <<"v", "e", "r", "i", "f", "i", "e", "d", " ", "d", "e", "s", "c", "r", "i", "p", "t", "i", "o", "n">>
      [] str = "steel pipes supplier" ->
           <<"s", "t", "e", "e", "l", " ", "p", "i", "p", "e", "s", " ", "s", "u", "p", "p", "l", "i", "e", "r">>
      [] str = "steel supplier in texas" ->
           <<"s", "t", "e", "e", "l", " ", "s", "u", "p", "p", "l", "i", "e", "r", " ", "i", "n", " ", "t", "e", "x", "a", "s">>
      [] str = "located in Houston, TX" ->
           <<"l", "o", "c", "a", "t", "e", "d", " ", "i", "n", " ", "H", "o", "u", "s", "t", "o", "n", ",", " ", "T", "X">>
      [] str = "None" ->
           <<"N", "o", "n", "e">>
      [] str = "snippet" ->
           <<"s", "n", "i", "p", "p", "e", "t">>
      [] str = "located" ->
           <<"l", "o", "c", "a", "t", "e", "d">>
      [] str = "based" ->
           <<"b", "a", "s", "e", "d">>
      [] str = "headquarters" ->
           <<"h", "e", "a", "d", "q", "u", "a", "r", "t", "e", "r", "s">>
      [] str = "office" ->
           <<"o", "f", "f", "i", "c", "e">>
      [] str = "in" ->
           <<"i", "n">>
      [] str = "at" ->
           <<"a", "t">>
      [] str = "" -> << >>

\* the strings Chars knows, and the string a sequence of characters spells
Strings ==
    {"Texas", "California", "Location not specified", "Houston, TX", "Unknown",
     "Acme Steel Inc", "Bolt Corp", "ab", "Verified Co", "ISO 9001", "iso 9001", "CE",
     "steel", "steel pipes", "verified description", "steel pipes supplier",
     "steel supplier in texas", "located in Houston, TX", "None", "snippet",
     "located", "based", "headquarters", "office", "in", "at", ""}
Text(chars) == CHOOSE str \in Strings : Chars(str) = chars

\* str.lower() over the whole alphabet
LowerText(str) == [i \in DOMAIN str |-> LowerChar(str[i])]

\* sub in str
Contains(sub, str) ==
    \E i \in 0..(Len(str) - Len(sub)) : SubSeq(str, i + 1, i + Len(sub)) = sub

\* the truth value of a str or of None
Truthy(str) == str # None /\ str # ""

\* the sentinel of _extract_location
LocationNotSpecified == "Location not specified"

\* state_abbrev of _location_matches
StateAbbrev ==
    <<<<<<"c", "a", "l", "i", "f", "o", "r", "n", "i", "a">>, <<"c", "a">>>>,
      <<<<"t", "e", "x", "a", "s">>, <<"t", "x">>>>,
      <<<<"n", "e", "w", " ", "y", "o", "r", "k">>, <<"n", "y">>>>,
      <<<<"f", "l", "o", "r", "i", "d", "a">>, <<"f", "l">>>>,
      <<<<"i", "l", "l", "i", "n", "o", "i", "s">>, <<"i", "l">>>>,
      <<<<"p", "e", "n", "n", "s", "y", "l", "v", "a", "n", "i", "a">>, <<"p", "a">>>>>>

\* _location_matches
LocationMatches(supplierLocation, requestedLocation) ==
    LET supplierLower == LowerText(Chars(supplierLocation))
        requestedLower == LowerText(Chars(requestedLocation))
    IN \/ Contains(requestedLower, supplierLower)
       \/ \E k \in DOMAIN StateAbbrev :
             \/ Contains(StateAbbrev[k][1], requestedLower) /\ Contains(StateAbbrev[k][2], supplierLower)
             \/ Contains(StateAbbrev[k][2], requestedLower) /\ Contains(StateAbbrev[k][1], supplierLower)

\* the titles and snippets of the search results tried, with what the regular
\* expressions of _extract_company_name and _extract_location find in them

\* _extract_company_name
ExtractCompanyName(title) ==
    CASE title = "Acme Steel Inc - Quality Pipes" -> "Acme Steel Inc"
      [] title = "Bolt Corp | Fasteners" -> "Bolt Corp"
      [] title = "ab" -> "ab"

\* the character classes of location_patterns: [A-Z], [a-zA-Z\s] and
\* [a-zA-Z\s,]
UpperClass == {UpperLetters[k] : k \in DOMAIN UpperLetters}
LetterSpaceClass ==
    UpperClass \cup {LowerLetters[k] : k \in DOMAIN LowerLetters} \cup Whitespace
LetterSpaceCommaClass == LetterSpaceClass \cup {","}

RECURSIVE RunEnd(_, _, _)
\* the index of the last character of the longest run of characters of the
\* class that begins at index i; i - 1 when there is none
RunEnd(text, i, class) ==
    IF i <= Len(text) /\ text[i] \in class THEN RunEnd(text, i + 1, class) ELSE i - 1
\* text[i] exists and is of the class
IsAt(text, i, class) == 1 <= i /\ i <= Len(text) /\ text[i] \in class
\* the word stands in the text from index i on
WordAt(text, i, word) ==
    i + Len(word) - 1 <= Len(text) /\ SubSeq(text, i, i + Len(word) - 1) = word

\* no match, and the group of a match as the indices of its first and last
\* character
NoMatch == [from |-> 0, to |-> 0]
\* (?:located|based|headquarters|office) and (?:in|at)
LocationWords == {Chars("located"), Chars("based"), Chars("headquarters"), Chars("office")}
Prepositions == {Chars("in"), Chars("at")}

\* \s+([A-Z][a-zA-Z\s,]+) from index i on: the blanks, then the group
PlaceAfterBlanks(text, i) ==
    LET blanks == RunEnd(text, i, Whitespace) IN
    IF blanks >= i /\ IsAt(text, blanks + 1, UpperClass)
       /\ RunEnd(text, blanks + 2, LetterSpaceCommaClass) >= blanks + 2
    THEN [from |-> blanks + 1, to |-> RunEnd(text, blanks + 2, LetterSpaceCommaClass)]
    ELSE NoMatch
\* \s+(?:in|at)\s+([A-Z][a-zA-Z\s,]+) from index i on
PlaceAfterWord(text, i) ==
    LET blanks == RunEnd(text, i, Whitespace) IN
    IF blanks >= i /\ \E w \in Prepositions : WordAt(text, blanks + 1, w)
    THEN PlaceAfterBlanks(text, blanks + 3)
    ELSE NoMatch
\* the first pattern at index i: one of the words, a preposition, the place
LocatedAt(text, i) ==
    IF \E w \in LocationWords : WordAt(text, i, w)
    THEN PlaceAfterWord(text, i + Len(CHOOSE w \in LocationWords : WordAt(text, i, w)))
    ELSE NoMatch

\* ,\s*[A-Z]{2} after the city, whose last character has index city
StateAfter(text, from, city) ==
    LET blanks == RunEnd(text, city + 2, Whitespace) IN
    IF IsAt(text, city + 1, {","}) /\ IsAt(text, blanks + 1, UpperClass)
       /\ IsAt(text, blanks + 2, UpperClass)
    THEN [from |-> from, to |-> blanks + 2]
    ELSE NoMatch
\* ,\s*[A-Z][a-zA-Z\s]+ after the city
CountryAfter(text, from, city) ==
    LET blanks == RunEnd(text, city + 2, Whitespace) IN
    IF IsAt(text, city + 1, {","}) /\ IsAt(text, blanks + 1, UpperClass)
       /\ RunEnd(text, blanks + 2, LetterSpaceClass) >= blanks + 2
    THEN [from |-> from, to |-> RunEnd(text, blanks + 2, LetterSpaceClass)]
    ELSE NoMatch
\* [A-Z][a-zA-Z\s]+ at index i: the index of its last character, 0 for none
\* (the run is greedy and the comma that must follow is not of its class, so
\* the longest run is the only one that can match)
CityEnd(text, i) ==
    IF IsAt(text, i, UpperClass) /\ RunEnd(text, i + 1, LetterSpaceClass) >= i + 1
    THEN RunEnd(text, i + 1, LetterSpaceClass)
    ELSE 0

\* location_patterns, in the order of the list
LocationPatterns == <<"located", "city_state", "city_country">>
\* the match of a pattern that begins at index i
MatchAt(pattern, text, i) ==
    CASE pattern = "located" -> LocatedAt(text, i)
      [] pattern = "city_state" ->
           IF CityEnd(text, i) = 0 THEN NoMatch ELSE StateAfter(text, i, CityEnd(text, i))
      [] pattern = "city_country" ->
           IF CityEnd(text, i) = 0 THEN NoMatch ELSE CountryAfter(text, i, CityEnd(text, i))
\* the group of the match at index i
GroupAt(pattern, text, i) ==
    SubSeq(text, MatchAt(pattern, text, i).from, MatchAt(pattern, text, i).to)
\* where the pattern matches
MatchStarts(pattern, text) == {i \in 1..Len(text) : MatchAt(pattern, text, i) # NoMatch}
\* re.findall(pattern, text)[:1]: the group of the leftmost match
FirstMatches(pattern, text) ==
    IF MatchStarts(pattern, text) = {} THEN << >>
    ELSE <<GroupAt(pattern, text,
                   CHOOSE i \in MatchStarts(pattern, text) :
                      \A k \in MatchStarts(pattern, text) : i <= k)>>

\* the shortest name and location text accepted: len(...) > 2
MinTextLen == 2

RECURSIVE LocationsFrom(_, _)
\* the loop over location_patterns from the given one on: the values of
\* location = matches[0].strip(), up to the one that is returned
LocationsFrom(text, k) ==
    IF k > Len(LocationPatterns) THEN << >>
    ELSE IF FirstMatches(LocationPatterns[k], text) = << >> THEN LocationsFrom(text, k + 1)
    ELSE IF Len(Strip(FirstMatches(LocationPatterns[k], text)[1], Whitespace)) > MinTextLen
    THEN <<Text(Strip(FirstMatches(LocationPatterns[k], text)[1], Whitespace))>>
    ELSE <<Text(Strip(FirstMatches(LocationPatterns[k], text)[1], Whitespace))>>
         \o LocationsFrom(text, k + 1)
\* matches[0].strip() for the location patterns that match, in pattern order,
\* up to the one _extract_location returns
PatternLocations(snippet) == LocationsFrom(Chars(snippet), 1)

RECURSIVE FirstLongEnough(_)
\* the first pattern match with len(location) > 2, or None
FirstLongEnough(found) ==
    IF found = << >> THEN None
    ELSE IF Len(Chars(Head(found))) > MinTextLen THEN Head(found)
    ELSE FirstLongEnough(Tail(found))

\* _extract_location
ExtractLocation(snippet, preferredLocation) ==
    IF FirstLongEnough(PatternLocations(snippet)) # None
    THEN FirstLongEnough(PatternLocations(snippet))
    ELSE IF Truthy(preferredLocation)
            /\ Contains(LowerText(Chars(preferredLocation)), LowerText(Chars(snippet)))
         THEN preferredLocation
         ELSE LocationNotSpecified

\* a SearchResult as search_suppliers returns it
DiscoverHit(title, snippet) ==
    [title |-> title, url |-> "https://supplier.com", snippet |-> snippet,
     source |-> "supplier.com"]
DiscoverHits ==
    {DiscoverHit("Acme Steel Inc - Quality Pipes", "steel pipes supplier"),
     DiscoverHit("Acme Steel Inc - Quality Pipes", "located in Houston, TX"),
     DiscoverHit("Bolt Corp | Fasteners", "steel supplier in texas"),
     DiscoverHit("Bolt Corp | Fasteners", "steel pipes supplier"),
     DiscoverHit("ab", "steel pipes supplier")}

RECURSIVE ExtractSupplierInfo(_, _)
\* _extract_supplier_info: one candidate dict per result whose extracted name
\* has more than two characters (the keys later stages read)
ExtractSupplierInfo(results, request) ==
    IF results = << >> THEN << >>
    ELSE LET r == Head(results)
             info == [name |-> ExtractCompanyName(r.title),
                      website |-> r.url,
                      location |-> ExtractLocation(r.snippet, request.location),
                      description |-> r.snippet]
         IN (IF Truthy(info.name) /\ Len(Chars(info.name)) > MinTextLen
             THEN <<info>> ELSE << >>)
            \o ExtractSupplierInfo(Tail(results), request)

RECURSIVE VerifySuppliersFrom(_, _, _, _)
VerifySuppliersFrom(out, candidates, resps, j) ==
    IF j > Len(candidates) THEN out
    ELSE LET v == VerifySupplierData(candidates[j], resps[j][1], resps[j][2]) IN
         VerifySuppliersFrom(Collect(out, [st |-> v.res.kind, res |-> v.res.val]),
                             candidates, resps, j + 1)
\* one whole _verify_suppliers call, given what the two providers do for each
\* candidate: the records of the calls that returned, in candidate order
VerifySuppliers(candidates, resps) == VerifySuppliersFrom(<< >>, candidates, resps, 1)

\* the truth value of an Optional[float]
TruthyNumber(x) == x # NoNumber /\ x[1] # 0

RECURSIVE JoinWords(_)
\* ' '.join(words), as characters
JoinWords(words) ==
    IF words = << >> THEN << >>
    ELSE IF Len(words) = 1 THEN Chars(words[1])
    ELSE Chars(words[1]) \o <<" ">> \o JoinWords(Tail(words))

RECURSIVE SplitWords(_, _)
\* str.split(): the set of the words of a text, which whitespace separates
SplitWords(text, word) ==
    IF text = << >> THEN (IF word = << >> THEN {} ELSE {word})
    ELSE IF Head(text) \in Whitespace
         THEN (IF word = << >> THEN {} ELSE {word}) \cup SplitWords(Tail(text), << >>)
         ELSE SplitWords(Tail(text), Append(word, Head(text)))

\* _meets_requirements: at least half of the requirements occur in the
\* description, specialties and certifications
MeetsRequirements(supplier, requirements) ==
    LET searchable == LowerText(Chars(supplier.description) \o <<" ">>
                                \o JoinWords(supplier.specialties) \o <<" ">>
                                \o JoinWords(supplier.certifications))
        matches == Cardinality({i \in DOMAIN requirements :
                                  Contains(LowerText(Chars(requirements[i])), searchable)})
    IN 2 * matches >= Len(requirements)

\* the body of the loop of _apply_filters: is the supplier kept
PassesFilters(supplier, request) ==
    /\ ~(/\ Truthy(request.location) /\ Truthy(supplier.location)
          /\ ~LocationMatches(supplier.location, request.location))
    /\ ~(/\ TruthyNumber(request.min_rating) /\ TruthyNumber(supplier.rating)
          /\ supplier.rating[1] < request.min_rating[1])
    /\ ~(/\ request.certifications # << >>
          /\ ~\E i \in DOMAIN request.certifications :
                \E k \in DOMAIN supplier.certifications :
                    LowerText(Chars(request.certifications[i]))
                        = LowerText(Chars(supplier.certifications[k])))
    /\ ~(/\ request.requirements # << >>
          /\ ~MeetsRequirements(supplier, request.requirements))

RECURSIVE ApplyFilters(_, _)
\* _apply_filters
ApplyFilters(suppliers, request) ==
    IF suppliers = << >> THEN << >>
    ELSE (IF PassesFilters(Head(suppliers), request) THEN <<Head(suppliers)>> ELSE << >>)
         \o ApplyFilters(Tail(suppliers), request)

\* =================================================================
\* the inputs of the runs of _rank_suppliers and _apply_filters
\* (app/services/supplier_agent.py)
\* =================================================================

\* the most certifications a supplier is given
MaxCerts == 6

\* the request fields the two functions read
ScoringRequest(location, certifications, min_rating) ==
    [product |-> "steel pipes", location |-> location, requirements |-> << >>,
     certifications |-> certifications, min_rating |-> min_rating, max_results |-> 1]

\* a validated SupplierInfo
Supplier(location, confidence, status, rating, certifications, specialties) ==
    [name |-> "Acme Steel Inc", website |-> "https://supplier.com", location |-> location,
     confidence_score |-> confidence, certifications |-> certifications,
     verification_status |-> status, specialties |-> specialties, rating |-> rating,
     description |-> None]

\* two suppliers whose scores under a request for Texas are 0.38 and
\* 0.38000000000000006
NearTieSuppliers ==
    {Supplier("Houston, TX", Confidence(7000), "failed", NoNumber, << >>, << >>),
     Supplier("California", Confidence(8000), "pending", NoNumber, << >>, << >>)}
\* the suppliers ranked: n certifications for every n up to MaxCerts, and the
\* two above; the elements of one list are distinct objects
RankedSuppliers ==
    {Supplier(l, c, st, r, [i \in 1..n |-> "ISO 9001"], sp) :
        l \in {"Houston, TX"}, c \in {Confidence(1000), MaxConfidenceScore},
        st \in {"verified", "pending"},
        r \in {NoNumber, Some(50)}, n \in 0..MaxCerts, sp \in {<<"steel pipes">>}}
    \cup NearTieSuppliers
RankRequests == {ScoringRequest(l, << >>, NoNumber) : l \in {None, "Texas"}}

\* the suppliers filtered
FilteredSuppliers ==
    {Supplier(l, MaxConfidenceScore, "verified", r, certs, << >>) :
        l \in {"Houston, TX", "California", LocationNotSpecified, ""},
        r \in {NoNumber, Some(40)},
        certs \in {<< >>, <<"ISO 9001">>, <<"iso 9001", "CE">>}}
FilterRequests ==
    {ScoringRequest(l, certs, m) :
        l \in {None, "Texas"},
        certs \in {<< >>, <<"ISO 9001">>, <<"CE">>, <<"ISO 9001", "CE">>},
        m \in {NoNumber, Some(45)}}

\* the requests tried
DiscoverRequests ==
    {[product |-> "steel pipes", location |-> l, requirements |-> << >>,
      certifications |-> << >>, min_rating |-> NoNumber, max_results |-> m] :
        l \in {None, "Texas", "California"}, m \in {1, 2}}

\* the records _verify_suppliers can hand to the ranking of these requests
DiscoverRankedSuppliers ==
    {CreateSupplierInfo(FullPayload, << >>).val}
    \cup {FallbackRecord([location |-> ExtractLocation(h.snippet, q.location)]) :
            h \in DiscoverHits, q \in DiscoverRequests}

\* the weights of calculate_score, in percent, and the floats they denote
ConfidenceWeight == 40
StatusWeight == 20
RatingWeight == 15
CertificationWeight == 10
LocationWeight == 10
SpecialtyWeight == 5
Percent == 100
Weight(k) == Decimal(k, Percent)
ConfidenceWeightScore == Weight(ConfidenceWeight)
StatusWeightScore == Weight(StatusWeight)
RatingWeightScore == Weight(RatingWeight)
CertificationWeightScore == Weight(CertificationWeight)
LocationWeightScore == Weight(LocationWeight)
SpecialtyWeightScore == Weight(SpecialtyWeight)
\* verification_weights, in ten-thousandths
VerifiedWeight == 10000
UnverifiedWeight == 5000
PendingWeight == 3000
FailedWeight == 0
\* the tenths of a rating, the top of the rating scale and the certification
\* count that earn the full weight
RatingTenths == 10
FullRating == 5
FullCertifications == 5

VerificationWeights(status) ==
    CASE status = "verified" -> VerifiedWeight
      [] status = "unverified" -> UnverifiedWeight
      [] status = "pending" -> PendingWeight
      [] status = "failed" -> FailedWeight
      [] OTHER -> 0

\* overlap and total_words of _calculate_specialty_relevance
SpecialtyOverlap(specialties, product) ==
    LET productWords == SplitWords(LowerText(Chars(product)), << >>)
        specialtyWords == SplitWords(LowerText(JoinWords(specialties)), << >>)
    IN [overlap |-> Cardinality(productWords \cap specialtyWords),
        total_words |-> Cardinality(productWords)]

\* _calculate_specialty_relevance: overlap / total_words if total_words > 0 else 0.0
CalculateSpecialtyRelevance(specialties, product) ==
    LET o == SpecialtyOverlap(specialties, product)
    IN IF o.total_words > 0
       THEN FloatDivInt(FloatFromInt(o.overlap), o.total_words)
       ELSE FloatZero

CertificationScoreDropsBeyondFull(certifications) ==
    IF Len(certifications) <= FullCertifications
    THEN FloatMul(FloatDivInt(FloatFromInt(Len(certifications)), FullCertifications),
                  CertificationWeightScore)
    ELSE FloatZero
\* the certification term of calculate_score: min(len / 5.0, 1.0) * 0.1
CertificationScore(certifications) ==
    FloatMul(FloatMin(FloatDivInt(FloatFromInt(Len(certifications)), FullCertifications),
                      FloatOne),
             CertificationWeightScore)

\* what calculate_score reads of the supplier and of the request
ScoreTerms(supplier, request) ==
    [confidence_score |-> supplier.confidence_score,
     verification_status |-> supplier.verification_status,
     rating |-> supplier.rating,
     certifications |-> supplier.certifications,
     location |-> supplier.location,
     specialties |-> supplier.specialties,
     requested |-> request.location,
     product |-> request.product]

\* the body of calculate_score: the terms are added to score one after the
\* other, each sum rounded, and min(score, 1.0) is returned
\* score += supplier.confidence_score * 0.4
AddConfidence(score, t) == FloatAdd(score, FloatMul(t.confidence_score, ConfidenceWeightScore))
\* score += verification_weights.get(status, 0.0) * 0.2
AddStatus(score, t) ==
    FloatAdd(score, FloatMul(Confidence(VerificationWeights(t.verification_status)),
                             StatusWeightScore))
\* if supplier.rating: score += (supplier.rating / 5.0) * 0.15
AddRating(score, t) ==
    IF TruthyNumber(t.rating)
    THEN FloatAdd(score, FloatMul(FloatDivInt(Decimal(t.rating[1], RatingTenths), FullRating),
                                  RatingWeightScore))
    ELSE score
\* if supplier.certifications: score += min(len / 5.0, 1.0) * 0.1
AddCertifications(score, t) ==
    IF t.certifications # << >> THEN FloatAdd(score, CertificationScore(t.certifications))
    ELSE score
\* if request.location and supplier.location and they match: score += 0.1
AddLocation(score, t) ==
    IF /\ Truthy(t.requested) /\ Truthy(t.location)
       /\ LocationMatches(t.location, t.requested)
    THEN FloatAdd(score, LocationWeightScore)
    ELSE score
\* if supplier.specialties: score += relevance * 0.05
AddSpecialty(score, t) ==
    IF t.specialties # << >>
    THEN FloatAdd(score, FloatMul(CalculateSpecialtyRelevance(t.specialties, t.product),
                                  SpecialtyWeightScore))
    ELSE score
Score(t) ==
    FloatMin(AddSpecialty(AddLocation(AddCertifications(AddRating(AddStatus(
                 AddConfidence(FloatZero, t), t), t), t), t), t),
             FloatOne)

\* the scores of the suppliers and requests of the runs, computed once
ScoreKeys ==
    {ScoreTerms(s, q) : s \in RankedSuppliers, q \in RankRequests}
    \cup {ScoreTerms(s, q) : s \in DiscoverRankedSuppliers, q \in DiscoverRequests}
ScoreTable == [t \in ScoreKeys |-> Score(t)]

CalculateScoreKeepsProvider(supplier, request) == supplier.confidence_score
\* calculate_score of _rank_suppliers
CalculateScore(supplier, request) ==
    LET t == ScoreTerms(supplier, request)
    IN IF t \in ScoreKeys THEN ScoreTable[t] ELSE Score(t)

RECURSIVE InsertByConfidenceBeforeEqual(_, _)
InsertByConfidenceBeforeEqual(sorted, supplier) ==
    IF sorted = << >> THEN <<supplier>>
    ELSE IF FloatLess(supplier.confidence_score, Head(sorted).confidence_score)
         THEN <<Head(sorted)>> \o InsertByConfidenceBeforeEqual(Tail(sorted), supplier)
         ELSE <<supplier>> \o sorted
RECURSIVE InsertByConfidence(_, _)
\* s placed behind every element whose score is >= its own
InsertByConfidence(sorted, supplier) ==
    IF sorted = << >> THEN <<supplier>>
    ELSE IF ~FloatLess(Head(sorted).confidence_score, supplier.confidence_score)
         THEN <<Head(sorted)>> \o InsertByConfidence(Tail(sorted), supplier)
         ELSE <<supplier>> \o sorted
RECURSIVE SortedByConfidence(_)
\* sorted(suppliers, key=confidence_score, reverse=True): descending, stable
SortedByConfidence(suppliers) ==
    IF suppliers = << >> THEN << >>
    ELSE InsertByConfidence(SortedByConfidence(SubSeq(suppliers, 1, Len(suppliers) - 1)),
                            suppliers[Len(suppliers)])

\* the loop of _rank_suppliers: supplier.confidence_score =
\* calculate_score(supplier) on every object of the list it was given
ScoredSuppliers(suppliers, request) ==
    [i \in DOMAIN suppliers |->
        [suppliers[i] EXCEPT !.confidence_score = CalculateScore(suppliers[i], request)]]

\* _rank_suppliers: suppliers is the list it was given, whose objects now
\* carry the new scores, ret the sorted list of the same objects it returns
RankSuppliers(suppliers, request) ==
    LET scored == ScoredSuppliers(suppliers, request)
    IN [suppliers |-> scored, ret |-> SortedByConfidence(scored)]

\* the response of the early return and of the except handler
EmptyResponse(request) ==
    [suppliers |-> << >>, total_found |-> 0, search_query |-> request.product,
     location_filter |-> request.location, data_sources |-> {}]

\* the response of the normal return
FullResponse(ranked, request, results) ==
    [suppliers |-> SubSeq(ranked, 1, Min2(request.max_results, Len(ranked))),
     total_found |-> Len(ranked), search_query |-> request.product,
     location_filter |-> request.location,
     data_sources |-> {results[i].source : i \in DOMAIN results}]

\* the most search results one call is given
MaxHits == 2

\* what search_suppliers can do: raise (it is replaced in the tests by a
\* function that does) or return a list of results
DiscoverSearchOutcomes ==
    {[raised |-> TRUE, results |-> << >>]}
    \cup {[raised |-> FALSE, results |-> l] :
            l \in UNION {[1..n -> DiscoverHits] : n \in 0..MaxHits}}

\* what the two providers do for one candidate
ProviderPairs == {<<"full", "full">>, <<"raise", "full">>, <<"raise", "raise">>, <<"invalid", "full">>}

\* discover_suppliers is called: search_suppliers is awaited
DiscoverCall(request) ==
    /\ dPc = "idle"
    /\ dPc' = "search"
    /\ dReq' = request
    /\ UNCHANGED <<dHits, dCands, dVerified, dFiltered, dRanked, dRaised, dResps, dRet>>

DiscoverFailsPropagates(stage) ==
    /\ dPc' = "done"
    /\ dRaised' = stage
    /\ dRet' = [kind |-> "raised", val |-> [error |-> stage]]
\* the except handler of discover_suppliers, entered from the given stage
DiscoverFails(stage) ==
    /\ dPc' = "done"
    /\ dRaised' = stage
    /\ dRet' = [kind |-> "returned", val |-> EmptyResponse(dReq)]

\* search_suppliers returns or raises; with results, the candidates are
\* extracted (extractRaises: _extract_supplier_info raises) and
\* _verify_suppliers is awaited
SearchReturn(outcome, extractRaises) ==
    /\ dPc = "search"
    /\ UNCHANGED <<dReq, dVerified, dFiltered, dRanked, dResps>>
    /\ IF outcome.raised
       THEN DiscoverFails("search") /\ UNCHANGED <<dHits, dCands>>
       ELSE /\ dHits' = outcome.results
            /\ IF outcome.results = << >>
               THEN /\ dPc' = "done"
                    /\ dRet' = [kind |-> "returned", val |-> EmptyResponse(dReq)]
                    /\ UNCHANGED <<dCands, dRaised>>
               ELSE IF extractRaises
                    THEN DiscoverFails("extract") /\ UNCHANGED dCands
                    ELSE /\ dCands' = ExtractSupplierInfo(outcome.results, dReq)
                         /\ dPc' = "verify"
                         /\ UNCHANGED <<dRaised, dRet>>

\* the stages after the candidates exist
LaterStages == {"verify", "filter", "rank"}

\* verified_suppliers after _rank_suppliers: the objects that passed
\* _apply_filters are the ones whose scores it overwrote
VerifiedAfterRanking(verified, request) ==
    [i \in DOMAIN verified |->
        IF PassesFilters(verified[i], request)
        THEN [verified[i] EXCEPT !.confidence_score = CalculateScore(verified[i], request)]
        ELSE verified[i]]

\* the locals of discover_suppliers after the three stages and its result
Ranked(verified, filtered, ranked, raises) ==
    /\ dVerified' = IF raises = "verify" THEN dVerified
                    ELSE IF raises \in LaterStages THEN verified
                    ELSE VerifiedAfterRanking(verified, dReq)
    /\ dFiltered' = IF raises \in {"verify", "filter"} THEN dFiltered
                    ELSE IF raises \in LaterStages THEN filtered
                    ELSE ranked.suppliers
    /\ dRanked' = IF raises \in LaterStages THEN dRanked ELSE ranked.ret
    /\ IF raises \in LaterStages
       THEN DiscoverFails(raises)
       ELSE /\ dPc' = "done"
            /\ dRet' = [kind |-> "returned", val |-> FullResponse(ranked.ret, dReq, dHits)]
            /\ UNCHANGED dRaised
\* ranked_suppliers = self._rank_suppliers(filtered_suppliers, request)
Filtered(verified, filtered, raises) ==
    Ranked(verified, filtered, RankSuppliers(filtered, dReq), raises)
\* filtered_suppliers = self._apply_filters(verified_suppliers, request)
Verified(verified, raises) == Filtered(verified, ApplyFilters(verified, dReq), raises)

\* _verify_suppliers returns or raises; the filters and the ranking run and
\* the response is built (raises: the stage that raises, "none" for none)
VerifyReturn(resps, raises) ==
    /\ dPc = "verify"
    /\ dResps' = resps
    /\ UNCHANGED <<dReq, dHits, dCands>>
    /\ Verified(VerifySuppliers(dCands, resps), raises)

NextDiscover ==
    \/ \E request \in DiscoverRequests :
          DiscoverCall(request)
             /\ UNCHANGED <<now, cacheVars, limiterVars, endpointVars, verifyVars, enrichVars, searchVars,
                             cancelVars, lockVars, sweepVars, laterVars>>
    \/ \E outcome \in DiscoverSearchOutcomes, extractRaises \in BOOLEAN :
          SearchReturn(outcome, extractRaises)
             /\ UNCHANGED <<now, cacheVars, limiterVars, endpointVars, verifyVars, enrichVars, searchVars,
                             cancelVars, lockVars, sweepVars, laterVars>>
    \/ \E resps \in [1..Len(dCands) -> ProviderPairs], raises \in LaterStages \cup {"none"} :
          VerifyReturn(resps, raises)
             /\ UNCHANGED <<now, cacheVars, limiterVars, endpointVars, verifyVars, enrichVars, searchVars,
                             cancelVars, lockVars, sweepVars, laterVars>>

\* =================================================================
\* cancellation of the caller while _verify_suppliers runs
\* =================================================================

\* asyncio.CancelledError
CancelledError == [error |-> "CancelledError"]

ExceptExceptionCatchesAll(exc) == TRUE
\* does "except Exception" catch exc: CancelledError derives from BaseException
ExceptExceptionCatches(exc) == exc # CancelledError

\* the task awaiting discover_suppliers is cancelled (wait_for timeout, client
\* gone) while _verify_suppliers awaits gather or sleep: gather passes the
\* cancellation on to its unfinished children
CancelDiscover ==
    /\ vPc \in {"gather", "sleep"}
    /\ ~vCancel.requested
    /\ vCancel' = [requested |-> TRUE, inflight |-> {j \in DOMAIN vTasks : InFlight(vTasks[j])},
                   batch |-> vI \div BatchSize]
    /\ vPc' = "cancelling"
    /\ UNCHANGED <<vCands, vI, vTasks, vOut, vRet>>

\* the cancellation arrives at child j: a call that has not begun never
\* does; into a call that has, CancelledError is thrown at its await, where
\* the except Exception handlers of verify_supplier_data stand (were the
\* error caught, the call would go on with the secondary provider)
TaskCancelled(j, sresp) ==
    /\ vPc = "cancelling"
    /\ j \in DOMAIN vTasks
    /\ InFlight(vTasks[j])
    /\ IF vTasks[j].st = "running" /\ ExceptExceptionCatches(CancelledError)
       THEN LET v == VerifySupplierData(vCands[j], "raise", sresp) IN
            vTasks' = [vTasks EXCEPT ![j] = [st |-> v.res.kind, res |-> v.res.val, how |-> v.how]]
       ELSE vTasks' = [vTasks EXCEPT ![j] = [st |-> "cancelled", res |-> CancelledError,
                                             how |-> "cancelled"]]
    /\ UNCHANGED <<vPc, vCands, vI, vOut, vRet, vCancel>>

\* every child is done: CancelledError is raised at the await of
\* _verify_suppliers and passes its except Exception and that of
\* discover_suppliers (were it caught, the loop would continue with the next
\* batch)
CancelComplete ==
    /\ vPc = "cancelling"
    /\ \A j \in DOMAIN vTasks : ~InFlight(vTasks[j])
    /\ IF ExceptExceptionCatches(CancelledError)
       THEN /\ vI' = vI + BatchSize
            /\ IF vI + BatchSize < Len(vCands)
               THEN /\ vPc' = "gather"
                    /\ vTasks' = Schedule(vTasks, BatchOf(vI + BatchSize, Len(vCands)))
                    /\ vRet' = NoResult
               ELSE /\ vPc' = "done"
                    /\ vTasks' = vTasks
                    /\ vRet' = [kind |-> "returned", val |-> vOut]
       ELSE /\ vPc' = "cancelled"
            /\ vRet' = [kind |-> "raised", val |-> CancelledError]
            /\ UNCHANGED <<vI, vTasks>>
    /\ UNCHANGED <<vCands, vOut, vCancel>>

NextCancel ==
    \/ NextVerify
    \/ CancelDiscover
          /\ UNCHANGED <<now, cacheVars, limiterVars, endpointVars, enrichVars, searchVars, discoverVars,
                             lockVars, sweepVars, laterVars>>
    \/ \E j \in 1..MaxCandidates, sresp \in BatchResponses :
          TaskCancelled(j, sresp)
             /\ UNCHANGED <<now, cacheVars, limiterVars, endpointVars, enrichVars, searchVars, discoverVars,
                             lockVars, sweepVars, laterVars>>
    \/ CancelComplete
          /\ UNCHANGED <<now, cacheVars, limiterVars, endpointVars, enrichVars, searchVars, discoverVars,
                             lockVars, sweepVars, laterVars>>

\* =================================================================
\* InMemoryCache under concurrent callers: asyncio.Lock (app/utils/cache.py)
\* =================================================================

\* the number of tasks that call the cache concurrently
MaxTasks == 2
TaskNames == <<"t1", "t2", "t3", "t4">>
LockTasks == {TaskNames[i] : i \in 1..MaxTasks}

\* the calls the tasks make: every key is set, one of them is read and deleted
LockCalls ==
    {[name |-> "set", key |-> k, value |-> "v1", ttl |-> 1] : k \in Keys}
    \cup {[name |-> "get", key |-> "k1"], [name |-> "delete", key |-> "k1"],
          [name |-> "clear"], [name |-> "cleanup_expired"]}

\* what the body of a call decides from the entry map it sees at time t: its
\* result and the change it goes on to make
Plan(c, call, t) ==
    CASE call.name = "get" ->
           IF call.key \in DOMAIN c
           THEN IF IsLive(c[call.key], t)
                THEN [result |-> c[call.key].value, change |-> "none"]
                ELSE [result |-> Miss, change |-> "del", keys |-> {call.key}]
           ELSE [result |-> Miss, change |-> "none"]
      [] call.name = "set" ->
           [result |-> None, change |-> "put", key |-> call.key,
            entry |-> NewEntry(call.value, call.ttl, t)]
      [] call.name = "delete" ->
           IF call.key \in DOMAIN c
           THEN [result |-> "True", change |-> "del", keys |-> {call.key}]
           ELSE [result |-> "False", change |-> "none"]
      [] call.name = "clear" -> [result |-> None, change |-> "clear"]
      [] call.name = "cleanup_expired" ->
           [result |-> None, change |-> "del", keys |-> ExpiredKeys(c, t)]

\* the change made to the entry map as it is then
ApplyPlan(c, plan) ==
    CASE plan.change = "none" -> c
      [] plan.change = "del" -> [k \in (DOMAIN c) \ plan.keys |-> c[k]]
      [] plan.change = "put" -> Put(c, plan.key, plan.entry)
      [] plan.change = "clear" -> << >>

\* a call run alone on the entry map c at time t
Sequential(c, call, t) ==
    [cache |-> ApplyPlan(c, Plan(c, call, t)), result |-> Plan(c, call, t).result]

NoTask == None
IdleTask == [pc |-> "idle"]

CanAcquireAlways(holder, waiters) == TRUE
\* asyncio.Lock.acquire takes the lock at once when it is unlocked and nobody
\* waits for it
CanAcquire(holder, waiters) == holder = NoTask /\ waiters = << >>

\* task t calls a cache method and reaches "async with self.lock"
LockCall(t, call) ==
    /\ lkTask[t].pc = "idle"
    /\ IF CanAcquire(lkHolder, lkWaiters)
       THEN /\ lkHolder' = t
            /\ lkWaiters' = lkWaiters
            /\ lkTask' = [lkTask EXCEPT ![t] = [pc |-> "locked", call |-> call]]
       ELSE /\ lkHolder' = lkHolder
            /\ lkWaiters' = Append(lkWaiters, t)
            /\ lkTask' = [lkTask EXCEPT ![t] = [pc |-> "waiting", call |-> call]]
    /\ UNCHANGED <<now, cache, lkSeq, lkOp>>

\* the first waiter, woken by release, takes the lock
LockWake(t) ==
    /\ lkTask[t].pc = "waiting"
    /\ lkHolder = NoTask
    /\ lkWaiters # << >> /\ Head(lkWaiters) = t
    /\ lkHolder' = t
    /\ lkWaiters' = Tail(lkWaiters)
    /\ lkTask' = [lkTask EXCEPT ![t].pc = "locked"]
    /\ UNCHANGED <<now, cache, lkSeq, lkOp>>

\* inside the lock, the first half of the body: the map and the clock are
\* read and the result and the change decided
LockRead(t) ==
    /\ lkTask[t].pc = "locked"
    /\ lkTask' = [lkTask EXCEPT ![t] =
                    [pc |-> "write", call |-> lkTask[t].call,
                     plan |-> Plan(cache, lkTask[t].call, now),
                     expected |-> Sequential(lkSeq, lkTask[t].call, now).result]]
    /\ lkSeq' = Sequential(lkSeq, lkTask[t].call, now).cache
    /\ UNCHANGED <<now, cache, lkHolder, lkWaiters, lkOp>>

\* the second half: the change is made, the lock released and the result
\* returned
LockWrite(t) ==
    /\ lkTask[t].pc = "write"
    /\ cache' = ApplyPlan(cache, lkTask[t].plan)
    /\ lkHolder' = IF lkHolder = t THEN NoTask ELSE lkHolder
    /\ lkOp' = [name |-> lkTask[t].call.name, change |-> lkTask[t].plan.change,
                result |-> lkTask[t].plan.result, expected |-> lkTask[t].expected]
    /\ lkTask' = [lkTask EXCEPT ![t] = IdleTask]
    /\ UNCHANGED <<now, lkWaiters, lkSeq>>

\* time passes while tasks call the cache
MaxLockTime == 2
LockTick ==
    /\ now < MaxLockTime
    /\ now' = now + 1
    /\ UNCHANGED <<cache, lockVars>>

NextLock ==
    \/ \E t \in LockTasks, call \in LockCalls :
          LockCall(t, call)
             /\ UNCHANGED <<lastSet, cacheOp, limiterVars, endpointVars, verifyVars, enrichVars,
                             searchVars, discoverVars, cancelVars, sweepVars, laterVars>>
    \/ \E t \in LockTasks :
          LockWake(t)
             /\ UNCHANGED <<lastSet, cacheOp, limiterVars, endpointVars, verifyVars, enrichVars,
                             searchVars, discoverVars, cancelVars, sweepVars, laterVars>>
    \/ \E t \in LockTasks :
          LockRead(t)
             /\ UNCHANGED <<lastSet, cacheOp, limiterVars, endpointVars, verifyVars, enrichVars,
                             searchVars, discoverVars, cancelVars, sweepVars, laterVars>>
    \/ \E t \in LockTasks :
          LockWrite(t)
             /\ UNCHANGED <<lastSet, cacheOp, limiterVars, endpointVars, verifyVars, enrichVars,
                             searchVars, discoverVars, cancelVars, sweepVars, laterVars>>
    \/ LockTick
          /\ UNCHANGED <<lastSet, cacheOp, limiterVars, endpointVars, verifyVars, enrichVars,
                          searchVars, discoverVars, cancelVars, sweepVars, laterVars>>

\* =================================================================
\* cache_cleanup_task and the lifespan that runs it
\* (app/utils/cache.py, app/main.py)
\* =================================================================

\* asyncio.sleep(300) after a sweep, asyncio.sleep(60) after a failed one
SweepInterval == 300
RetryInterval == 60
\* the number of sweep cycles followed
MaxSweeps == 3

SweepOutcomes == {"ok", "raises"}
SweepUnchanged == <<limiterVars, endpointVars, verifyVars, enrichVars, searchVars,
                    discoverVars, cancelVars, lockVars, laterVars>>

\* lifespan startup: asyncio.create_task(cache_cleanup_task())
LifespanStartup ==
    /\ appState = "starting"
    /\ appState' = "running"
    /\ swPc' = "sweeping"
    /\ UNCHANGED <<now, cacheVars, swWake, swHist, swEnd>>

AfterFailurePropagates == [pc |-> "ended", end |-> "exception"]
\* except Exception: the error is logged and the task sleeps before the next
\* cycle
AfterFailure == [pc |-> "backoff", end |-> "none"]

\* one turn of the loop up to its sleep: cleanup_expired returns or raises
SweepCycle(outcome) ==
    /\ appState = "running"
    /\ swPc = "sweeping"
    /\ Len(swHist) < MaxSweeps
    /\ swHist' = Append(swHist, outcome)
    /\ IF outcome = "ok"
       THEN /\ CleanupExpired
            /\ swPc' = "sleeping"
            /\ swWake' = now + SweepInterval
            /\ swEnd' = swEnd
       ELSE /\ UNCHANGED <<now, cacheVars>>
            /\ swPc' = AfterFailure.pc
            /\ swEnd' = AfterFailure.end
            /\ swWake' = now + RetryInterval
    /\ UNCHANGED appState

\* asyncio.sleep returns and the loop starts over
SweepWake ==
    /\ appState = "running"
    /\ swPc \in {"sleeping", "backoff"}
    /\ now' = IF now < swWake THEN swWake ELSE now
    /\ swPc' = "sweeping"
    /\ UNCHANGED <<cacheVars, appState, swWake, swHist, swEnd>>

\* lifespan shutdown: task.cancel() requests the cancellation of the task,
\* which is still pending, and the lifespan is suspended at "await task"
LifespanShutdown ==
    /\ appState = "running"
    /\ appState' = "stopping"
    /\ UNCHANGED <<now, cacheVars, swPc, swWake, swHist, swEnd>>

\* the last step of the task: CancelledError is raised where the task waits
\* (or before its first step), and except Exception does not catch it
SweepCancelled ==
    /\ appState = "stopping"
    /\ swPc # "ended"
    /\ ~ExceptExceptionCatches(CancelledError)
    /\ swPc' = "ended"
    /\ swEnd' = "cancelled"
    /\ UNCHANGED <<now, cacheVars, appState, swWake, swHist>>

\* the task is done: "await task" raises CancelledError in the lifespan,
\* which passes over it, and the shutdown is complete
ShutdownComplete ==
    /\ appState = "stopping"
    /\ swPc = "ended"
    /\ appState' = "stopped"
    /\ UNCHANGED <<now, cacheVars, swPc, swWake, swHist, swEnd>>

\* the application stores an entry while the task runs, or while the
\* shutdown waits for the task
SweepCacheSet(k, ttl) ==
    /\ appState \in {"running", "stopping"}
    /\ CacheSet(k, "v1", ttl)
    /\ UNCHANGED sweepVars

\* the steps of the task itself
SweepCycleStep == \E outcome \in SweepOutcomes : SweepCycle(outcome) /\ UNCHANGED SweepUnchanged
SweepWakeStep == SweepWake /\ UNCHANGED SweepUnchanged
SweepCancelledStep == SweepCancelled /\ UNCHANGED SweepUnchanged

NextSweep ==
    \/ LifespanStartup /\ UNCHANGED SweepUnchanged
    \/ SweepCycleStep
    \/ SweepWakeStep
    \/ LifespanShutdown /\ UNCHANGED SweepUnchanged
    \/ SweepCancelledStep
    \/ ShutdownComplete /\ UNCHANGED SweepUnchanged
    \/ \E k \in Keys, ttl \in TTLs : SweepCacheSet(k, ttl) /\ UNCHANGED SweepUnchanged

\* =================================================================
\* CacheManager.get_or_set (app/utils/cache.py)
\* =================================================================

\* settings.cache_ttl_seconds
cache_ttl_seconds == 3600
\* the get_or_set calls followed
MaxManagerCalls == 2
\* the time followed while get_or_set is called
MaxManagerTime == 1

\* the exceptions of a failing cache and of a failing func
CacheError == [error |-> "CacheError"]
FuncError == [error |-> "FuncError"]

\* what one invocation of func does: it returns a value (None is one) or raises
FuncOutcomes == {[raised |-> FALSE, val |-> "v1"], [raised |-> FALSE, val |-> None],
                 [raised |-> TRUE]}
\* the ttl argument: None, 0 or a number of seconds
TtlArguments == {NoNumber, Some(0), Some(1)}

\* cache_ttl = ttl or settings.cache_ttl_seconds
CacheTtl(ttl) == IF ttl = NoNumber \/ ttl = Some(0) THEN cache_ttl_seconds ELSE ttl[1]

\* what awaiting func() gives the caller
FuncResult(f) ==
    IF f.raised THEN [kind |-> "raised", val |-> FuncError]
    ELSE [kind |-> "returned", val |-> f.val]

\* the keys get_or_set is called with
ManagerKeys == {"k1"}
\* what is kept of a call that has returned
Returned(call, ret) ==
    [log |-> call.log, getRaised |-> call.getRaised, setRaised |-> call.setRaised,
     hit |-> call.hit, errors |-> call.errors, handler |-> call.handler, ret |-> ret]

\* the tasks that call get_or_set; a call is suspended where it awaits func()
\* (cache.get and cache.set take the cache's lock, which nobody holds across
\* a suspension, and return without yielding)
ManagerTasks == {1, 2}
IdleCall == [pc |-> "idle"]
\* the tasks are alike: a new call is the work of the first idle one
FreeTask(t) == gTask[t].pc = "idle" /\ \A u \in ManagerTasks : gTask[u].pc = "idle" => t <= u

OnErrorReraise(counts, log, exc) ==
    [counts |-> counts, log |-> log, ret |-> [kind |-> "raised", val |-> exc]]
\* the except handler up to its await: error_count += 1, the error is logged
\* and func is invoked; the call has not returned (ret is NoResult)
OnError(counts, log, exc) ==
    [counts |-> [counts EXCEPT !.error_count = @ + 1],
     log |-> log \o <<"func">>,
     ret |-> NoResult]

\* the call of task t goes on from the handler h entered on it: it awaits the
\* handler's func(), or has returned
AfterHandler(t, call, h) ==
    LET c == [call EXCEPT !.log = h.log,
                          !.errors = <<mgr.error_count, h.counts.error_count>>]
    IN /\ mgr' = h.counts
       /\ IF h.ret = NoResult
          THEN /\ gTask' = [gTask EXCEPT ![t] = [c EXCEPT !.pc = "handler"]]
               /\ gCall' = gCall
          ELSE /\ gTask' = [gTask EXCEPT ![t] = IdleCall]
               /\ gCall' = Returned(c, h.ret)

\* task t calls get_or_set(k, func, ttl): cache.get is awaited (getRaises: it
\* raises); on a hit the call returns, otherwise func is invoked and awaited
GetOrSetCall(t, k, ttl, getRaises) ==
    /\ FreeTask(t)
    /\ gCalls < MaxManagerCalls
    /\ gCalls' = gCalls + 1
    /\ LET got == Sequential(cache, [name |-> "get", key |-> k], now)
           call == [pc |-> "func", key |-> k, ttl |-> ttl, log |-> <<"get">>,
                    getRaised |-> getRaises, setRaised |-> FALSE, hit |-> FALSE,
                    errors |-> << >>, handler |-> NoResult]
       IN IF getRaises
          THEN /\ cache' = cache
               /\ AfterHandler(t, call, OnError(mgr, call.log, CacheError))
          ELSE IF got.result # None
          THEN /\ cache' = got.cache
               /\ mgr' = [mgr EXCEPT !.hit_count = @ + 1]
               /\ gTask' = gTask
               /\ gCall' = Returned([call EXCEPT !.hit = TRUE],
                                    [kind |-> "returned", val |-> got.result])
          ELSE /\ cache' = got.cache
               /\ mgr' = [mgr EXCEPT !.miss_count = @ + 1]
               /\ gTask' = [gTask EXCEPT ![t] = [call EXCEPT !.log = <<"get", "func">>]]
               /\ gCall' = gCall
    /\ UNCHANGED <<now, lastSet, cacheOp, mgrOp>>

\* the func() of the miss path of task t is over (f: what it did); its value
\* is cached and returned, unless func or cache.set raised (setRaises)
FuncReturn(t, f, setRaises) ==
    /\ gTask[t].pc = "func"
    /\ LET call == gTask[t] IN
       IF f.raised
       THEN /\ cache' = cache
            /\ AfterHandler(t, call, OnError(mgr, call.log, FuncError))
       ELSE IF setRaises
       THEN /\ cache' = cache
            /\ AfterHandler(t, [call EXCEPT !.setRaised = TRUE],
                            OnError(mgr, call.log \o <<"set">>, CacheError))
       ELSE /\ cache' = Sequential(cache,
                                   [name |-> "set", key |-> call.key, value |-> f.val,
                                    ttl |-> CacheTtl(call.ttl)], now).cache
            /\ mgr' = mgr
            /\ gTask' = [gTask EXCEPT ![t] = IdleCall]
            /\ gCall' = Returned([call EXCEPT !.log = @ \o <<"set">>],
                                 [kind |-> "returned", val |-> f.val])
    /\ UNCHANGED <<now, lastSet, cacheOp, gCalls, mgrOp>>

\* the func() awaited by the except handler of task t is over: what it gives
\* is what get_or_set gives
HandlerReturn(t, f) ==
    /\ gTask[t].pc = "handler"
    /\ gTask' = [gTask EXCEPT ![t] = IdleCall]
    /\ gCall' = Returned([gTask[t] EXCEPT !.handler = f], FuncResult(f))
    /\ UNCHANGED <<now, cacheVars, mgr, gCalls, mgrOp>>

\* the characters of the keys and of the patterns tried
KeyText(str) ==
    CASE str = "k1" -> <<"k", "1">>
      [] str = "k2" -> <<"k", "2">>
      [] str = "k" -> <<"k">>
      [] str = "2" -> <<"2">>
      [] str = "x" -> <<"x">>
InvalidatePatterns == {"k", "x"}

\* CacheManager.invalidate_pattern: every key that contains the pattern is
\* deleted (cache.delete does not suspend); the number deleted is returned
InvalidatePattern(pattern) ==
    LET matching == {k \in DOMAIN cache : Contains(KeyText(pattern), KeyText(k))}
    IN /\ cache' = [k \in (DOMAIN cache) \ matching |-> cache[k]]
       /\ mgrOp' = [op |-> "invalidate_pattern", pattern |-> pattern,
                    result |-> Cardinality(matching)]
       /\ UNCHANGED <<now, lastSet, cacheOp, mgr, gCall, gTask, gCalls>>

\* CacheManager.reset_stats
ResetStats ==
    /\ mgr' = [hit_count |-> 0, miss_count |-> 0, error_count |-> 0]
    /\ mgrOp' = [op |-> "reset_stats"]
    /\ UNCHANGED <<now, cacheVars, gCall, gTask, gCalls>>

\* time passes between calls
ManagerTick ==
    /\ now < MaxManagerTime
    /\ now' = now + 1
    /\ UNCHANGED <<cacheVars, managerVars>>

ManagerUnchanged == <<limiterVars, endpointVars, verifyVars, enrichVars, searchVars,
                      discoverVars, cancelVars, lockVars, sweepVars, bucketVars, adaptiveVars,
                      scoringVars, advancedVars>>

NextManager ==
    \/ \E t \in ManagerTasks, k \in ManagerKeys, ttl \in TtlArguments, getRaises \in BOOLEAN :
          GetOrSetCall(t, k, ttl, getRaises) /\ UNCHANGED ManagerUnchanged
    \/ \E t \in ManagerTasks, f \in FuncOutcomes, setRaises \in BOOLEAN :
          FuncReturn(t, f, setRaises) /\ UNCHANGED ManagerUnchanged
    \/ \E t \in ManagerTasks, f \in FuncOutcomes :
          HandlerReturn(t, f) /\ UNCHANGED ManagerUnchanged
    \/ \E pattern \in InvalidatePatterns :
          InvalidatePattern(pattern) /\ UNCHANGED ManagerUnchanged
    \/ ResetStats /\ UNCHANGED ManagerUnchanged
    \/ ManagerTick /\ UNCHANGED ManagerUnchanged

\* =================================================================
\* TokenBucket (app/utils/rate_limiter.py)
\* =================================================================

\* tokens are counted in halves, so that half a token per second is a rate
TokenScale == 2
\* the largest capacity and the largest amount asked of consume, in tokens
MaxCapacity == 2
MaxConsume == 3
\* the time followed while the bucket is used
MaxBucketTime == 3

Capacities == 1..MaxCapacity
\* refill rates, in half tokens per second
RefillRates == {1, 2}
BucketTasks == {"t1", "t2"}

\* TokenBucket(capacity, refill_rate): the bucket starts full
BucketCreate(capacity, refill_rate) ==
    /\ bucket = NoResult
    /\ bucket' = [capacity |-> capacity * TokenScale, refill_rate |-> refill_rate,
                  tokens |-> capacity * TokenScale, last_refill |-> now]
    /\ UNCHANGED <<now, bkHolder, bkWaiters, bkTask, bkOp>>

RefillUncapped(tokens, elapsed, rate, capacity) == tokens + elapsed * rate
\* min(self.capacity, self.tokens + elapsed * self.refill_rate)
Refill(tokens, elapsed, rate, capacity) == Min2(capacity, tokens + elapsed * rate)

\* task t calls consume(n) and reaches "async with self.lock"
ConsumeCall(t, n) ==
    /\ bucket # NoResult
    /\ bkTask[t].pc = "idle"
    /\ IF CanAcquire(bkHolder, bkWaiters)
       THEN /\ bkHolder' = t
            /\ bkWaiters' = bkWaiters
            /\ bkTask' = [bkTask EXCEPT ![t] = [pc |-> "locked", n |-> n]]
       ELSE /\ bkHolder' = bkHolder
            /\ bkWaiters' = Append(bkWaiters, t)
            /\ bkTask' = [bkTask EXCEPT ![t] = [pc |-> "waiting", n |-> n]]
    /\ UNCHANGED <<now, bucket, bkOp>>

\* the first waiter, woken by release, takes the lock
ConsumeWake(t) ==
    /\ bkTask[t].pc = "waiting"
    /\ bkHolder = NoTask
    /\ bkWaiters # << >> /\ Head(bkWaiters) = t
    /\ bkHolder' = t
    /\ bkWaiters' = Tail(bkWaiters)
    /\ bkTask' = [bkTask EXCEPT ![t].pc = "locked"]
    /\ UNCHANGED <<now, bucket, bkOp>>

\* inside the lock: tokens are added for the time elapsed
ConsumeRefill(t) ==
    /\ bkTask[t].pc = "locked"
    /\ LET elapsed == now - bucket.last_refill
       IN /\ bucket' = [bucket EXCEPT
                          !.tokens = Refill(bucket.tokens, elapsed, bucket.refill_rate,
                                            bucket.capacity),
                          !.last_refill = now]
          /\ bkTask' = [bkTask EXCEPT ![t] = [pc |-> "refilled", n |-> bkTask[t].n,
                                              before |-> bucket.tokens, elapsed |-> elapsed]]
    /\ UNCHANGED <<now, bkHolder, bkWaiters, bkOp>>

\* inside the lock: the tokens are taken if there are enough; the lock is
\* released and the answer returned
ConsumeDeduct(t) ==
    /\ bkTask[t].pc = "refilled"
    /\ LET n == bkTask[t].n * TokenScale
           enough == bucket.tokens >= n
           after == IF enough THEN bucket.tokens - n ELSE bucket.tokens
       IN /\ bucket' = [bucket EXCEPT !.tokens = after]
          /\ bkOp' = [n |-> n, before |-> bkTask[t].before, elapsed |-> bkTask[t].elapsed,
                      refilled |-> bucket.tokens, result |-> enough, after |-> after]
    /\ bkHolder' = IF bkHolder = t THEN NoTask ELSE bkHolder
    /\ bkTask' = [bkTask EXCEPT ![t] = IdleTask]
    /\ UNCHANGED <<now, bkWaiters>>

\* time passes while the bucket is used
BucketTick ==
    /\ now < MaxBucketTime
    /\ now' = now + 1
    /\ UNCHANGED bucketVars

BucketUnchanged == <<cacheVars, limiterVars, endpointVars, verifyVars, enrichVars, searchVars,
                     discoverVars, cancelVars, lockVars, sweepVars, managerVars, adaptiveVars,
                     scoringVars, advancedVars>>

NextBucket ==
    \/ \E capacity \in Capacities, refill_rate \in RefillRates :
          BucketCreate(capacity, refill_rate) /\ UNCHANGED BucketUnchanged
    \/ \E t \in BucketTasks, n \in 0..MaxConsume :
          ConsumeCall(t, n) /\ UNCHANGED BucketUnchanged
    \/ \E t \in BucketTasks : ConsumeWake(t) /\ UNCHANGED BucketUnchanged
    \/ \E t \in BucketTasks : ConsumeRefill(t) /\ UNCHANGED BucketUnchanged
    \/ \E t \in BucketTasks : ConsumeDeduct(t) /\ UNCHANGED BucketUnchanged
    \/ BucketTick /\ UNCHANGED BucketUnchanged

\* =================================================================
\* AdaptiveRateLimiter (app/utils/rate_limiter.py)
\* =================================================================

\* self.adjustment_interval
AdjustmentInterval == 60
\* error_rate > 0.1, error_rate < 0.05, in percent
HighErrorPercent == 10
LowErrorPercent == 5
\* current_limit * 0.8, current_limit * 1.2, in percent
ShrinkPercent == 80
GrowPercent == 120
\* the adjustments, the requests recorded between two adjustments and the
\* clock steps followed
MaxAdjustments == 3
MaxRecords == 10
MaxAdaptiveTicks == 3
\* limits are counted in units of 5^-MaxAdjustments, which keeps every
\* product with 0.8 and 1.2 exact
LimitScale == 5 ^ MaxAdjustments
\* (base_limit, max_limit) of the limiters created; the last is the default
LimitPairs == {<<10, 12>>, <<10, 14>>, <<10, 100>>}
\* the clock steps: a second, the rest of the adjustment interval, a whole one
ClockSteps == {1, AdjustmentInterval - 1, AdjustmentInterval}

\* AdaptiveRateLimiter(base_limit, max_limit)
AdaptiveCreate(base_limit, max_limit) ==
    /\ adaptive = NoResult
    /\ adaptive' = [base_limit |-> base_limit * LimitScale, max_limit |-> max_limit * LimitScale,
                    current_limit |-> base_limit * LimitScale,
                    success_count |-> 0, error_count |-> 0, last_adjustment |-> now]
    /\ UNCHANGED <<now, aOp, aSteps>>

ShrinkUnclamped(limit, base_limit) == (limit * ShrinkPercent) \div 100
\* max(self.base_limit, self.current_limit * 0.8)
Shrink(limit, base_limit) == Max2(base_limit, (limit * ShrinkPercent) \div 100)
\* min(self.max_limit, self.current_limit * 1.2)
Grow(limit, max_limit) == Min2(max_limit, (limit * GrowPercent) \div 100)

\* adjust_limit on the limiter a at time t: the limiter afterwards
AdjustLimit(a, t) ==
    LET total_requests == a.success_count + a.error_count
    IN IF t - a.last_adjustment < AdjustmentInterval THEN a
       ELSE IF total_requests = 0 THEN a
       ELSE [a EXCEPT
               !.current_limit =
                   IF a.error_count * 100 > HighErrorPercent * total_requests
                   THEN Shrink(a.current_limit, a.base_limit)
                   ELSE IF a.error_count * 100 < LowErrorPercent * total_requests
                   THEN Grow(a.current_limit, a.max_limit)
                   ELSE a.current_limit,
               !.success_count = 0,
               !.error_count = 0,
               !.last_adjustment = t]

\* record_success() / record_error(): the counter is incremented and
\* adjust_limit is called
Record(kind) ==
    /\ adaptive # NoResult
    /\ adaptive.success_count + adaptive.error_count < MaxRecords
    /\ aSteps.adjustments < MaxAdjustments
    /\ LET counted == IF kind = "success"
                      THEN [adaptive EXCEPT !.success_count = @ + 1]
                      ELSE [adaptive EXCEPT !.error_count = @ + 1]
           after == AdjustLimit(counted, now)
           adjusted == after.last_adjustment # adaptive.last_adjustment
       IN /\ adaptive' = after
          /\ aOp' = [kind |-> kind, adjusted |-> adjusted,
                     elapsed |-> now - adaptive.last_adjustment,
                     successes |-> counted.success_count, errors |-> counted.error_count,
                     limit |-> adaptive.current_limit, at |-> now]
          /\ aSteps' = [aSteps EXCEPT !.adjustments = IF adjusted THEN @ + 1 ELSE @]
    /\ UNCHANGED now

\* time passes between recorded requests
AdaptiveTick(step) ==
    /\ adaptive # NoResult
    /\ aSteps.ticks < MaxAdaptiveTicks
    /\ now' = now + step
    /\ aSteps' = [aSteps EXCEPT !.ticks = @ + 1]
    /\ UNCHANGED <<adaptive, aOp>>

AdaptiveUnchanged == <<cacheVars, limiterVars, endpointVars, verifyVars, enrichVars, searchVars,
                       discoverVars, cancelVars, lockVars, sweepVars, managerVars, bucketVars,
                       scoringVars, advancedVars>>

NextAdaptive ==
    \/ \E pair \in LimitPairs : AdaptiveCreate(pair[1], pair[2]) /\ UNCHANGED AdaptiveUnchanged
    \/ \E kind \in {"success", "error"} : Record(kind) /\ UNCHANGED AdaptiveUnchanged
    \/ \E step \in ClockSteps : AdaptiveTick(step) /\ UNCHANGED AdaptiveUnchanged

\* =================================================================
\* _rank_suppliers and _apply_filters called on their own
\* (app/services/supplier_agent.py)
\* =================================================================

\* _rank_suppliers([a, b], request); the function keeps no state between
\* calls, so a behaviour makes one call
RankCall(a, b, request) ==
    /\ rank = NoResult /\ filt = NoResult
    /\ LET ranked == RankSuppliers(<<a, b>>, request)
       IN rank' = [given |-> <<a, b>>, request |-> request,
                   suppliers |-> ranked.suppliers, out |-> ranked.ret]
    /\ UNCHANGED filt

\* _apply_filters([a, b], request), one call as well
FilterCall(a, b, request) ==
    /\ rank = NoResult /\ filt = NoResult
    /\ filt' = [suppliers |-> <<a, b>>, request |-> request,
                out |-> ApplyFilters(<<a, b>>, request)]
    /\ UNCHANGED rank

ScoringUnchanged == <<now, cacheVars, limiterVars, endpointVars, verifyVars, enrichVars, searchVars,
                      discoverVars, cancelVars, lockVars, sweepVars, managerVars, bucketVars,
                      adaptiveVars, advancedVars>>

NextScoring ==
    /\ rank = NoResult /\ filt = NoResult
    /\ \/ \E a \in RankedSuppliers, b \in RankedSuppliers, request \in RankRequests :
             RankCall(a, b, request) /\ UNCHANGED ScoringUnchanged
       \/ \E a \in FilteredSuppliers, b \in FilteredSuppliers, request \in FilterRequests :
             FilterCall(a, b, request) /\ UNCHANGED ScoringUnchanged

\* =================================================================
\* _enhance_supplier_data_advanced and its cache (src/llm_service.py)
\* =================================================================

\* llm_cache_set's default ttl, in seconds
LlmCacheTtl == 7200
\* the confidence given when no smart confidence is passed, in ten-thousandths
AdvancedDefaultConfidence == 5000
\* the calls and the clock steps of one behaviour
MaxAdvancedCalls == 2
MaxAdvancedTicks == 2

\* the candidates enriched
AdvancedCandidates ==
    {[name |-> n, location |-> "Houston, TX", description |-> "steel pipes supplier",
      website |-> "https://supplier.com"] : n \in {"Acme Steel Inc", "Bolt Corp"}}

\* cache_key: f"supplier_advanced:{name}:{hash(description)}"
AdvancedCacheKey(supplier_info) ==
    <<"supplier_advanced", supplier_info.name, supplier_info.description>>
AdvancedCacheKeys == {AdvancedCacheKey(i) : i \in AdvancedCandidates}

\* what a provider does: raise; answer without a JSON object; answer with
\* braces that json.loads rejects; answer with an object whose rating is not
\* a number; answer with a complete object
AdvancedResponses == {"raise", "no_json", "bad_json", "bad_rating", "full"}

\* the object parsed from a provider's text: a dict, or json.loads raising
ParseEnhanced(resp) ==
    CASE resp = "full" ->
            [kind |-> "returned",
             val |-> [certifications |-> {"ISO 9001"}, rating |-> Some(45),
                      enhanced_description |-> Some("Enhanced"), valid |-> TRUE]]
      [] resp = "bad_rating" ->
            [kind |-> "returned",
             val |-> [certifications |-> {}, rating |-> Some(-1),
                      enhanced_description |-> NoNumber, valid |-> FALSE]]
      [] resp = "no_json" ->
            [kind |-> "returned",
             val |-> [certifications |-> {}, rating |-> NoNumber,
                      enhanced_description |-> NoNumber, valid |-> TRUE]]
      [] OTHER -> [kind |-> "raised", val |-> [error |-> "JSONDecodeError"]]

\* enhanced_data = {}
EmptyEnhanced == ParseEnhanced("no_json").val

\* the Groq try block and its except handler with the Gemini try block:
\* the providers contacted and the enhanced_data that results
QueryProviders(groq, gemini) ==
    IF groq # "raise" /\ ParseEnhanced(groq).kind = "returned"
    THEN [contacted |-> <<"groq">>, enhanced_data |-> ParseEnhanced(groq).val, failed |-> FALSE]
    ELSE IF gemini # "raise" /\ ParseEnhanced(gemini).kind = "returned"
         THEN [contacted |-> <<"groq", "gemini">>, enhanced_data |-> ParseEnhanced(gemini).val,
               failed |-> FALSE]
         ELSE [contacted |-> <<"groq", "gemini">>, enhanced_data |-> EmptyEnhanced,
               failed |-> TRUE]

\* llm_cache_get: the cache after the lookup (an expired entry is deleted)
\* and the data found
LlmCacheGet(c, key, t) ==
    IF c[key] = NoResult THEN [cache |-> c, data |-> NoResult]
    ELSE IF c[key].expires > t THEN [cache |-> c, data |-> c[key].data]
    ELSE [cache |-> [c EXCEPT ![key] = NoResult], data |-> NoResult]

\* llm_cache_set with the default ttl
LlmCacheSet(c, key, data, t) ==
    [c EXCEPT ![key] = [data |-> data, expires |-> t + LlmCacheTtl]]

\* smart_confidence or default
SmartOr(smart_confidence, default) ==
    IF TruthyNumber(smart_confidence) THEN smart_confidence[1] ELSE default

\* the certifications of web_intelligence, when it has any
WebCertifications(web_intelligence) ==
    IF web_intelligence = NoNumber THEN {} ELSE web_intelligence[1].certifications

\* the SupplierInfo built from enhanced_data (certifications as a set:
\* list(set(...)) fixes no order)
AdvancedRecord(supplier_info, web_intelligence, smart_confidence, enhanced_data) ==
    [name |-> supplier_info.name, location |-> supplier_info.location,
     description |-> IF enhanced_data.enhanced_description = NoNumber
                     THEN supplier_info.description
                     ELSE enhanced_data.enhanced_description[1],
     website |-> supplier_info.website,
     confidence_score |-> IF smart_confidence # NoNumber THEN smart_confidence[1]
                          ELSE AdvancedDefaultConfidence,
     certifications |-> WebCertifications(web_intelligence) \cup enhanced_data.certifications,
     rating |-> enhanced_data.rating,
     web_intelligence |-> web_intelligence]

\* the SupplierInfo of the outer except handler
AdvancedFallback(supplier_info, web_intelligence, smart_confidence) ==
    [name |-> supplier_info.name, location |-> supplier_info.location,
     description |-> supplier_info.description, website |-> supplier_info.website,
     confidence_score |-> SmartOr(smart_confidence, AdvancedDefaultConfidence),
     certifications |-> {}, rating |-> NoNumber, web_intelligence |-> web_intelligence]

\* _enhance_supplier_data_advanced: the cache afterwards, the record
\* returned, the providers contacted
EnhanceSupplierDataAdvanced(c, t, supplier_info, web_intelligence, smart_confidence, groq, gemini) ==
    LET key == AdvancedCacheKey(supplier_info)
        got == LlmCacheGet(c, key, t)
        q == QueryProviders(groq, gemini)
    IN IF got.data # NoResult
       THEN \* cached_result.update(...) changes the cached dict itself
            LET updated == [got.data EXCEPT
                              !.web_intelligence = web_intelligence,
                              !.confidence_score = SmartOr(smart_confidence, got.data.confidence_score)]
            IN [cache |-> [got.cache EXCEPT ![key].data = updated], ret |-> updated,
                hit |-> TRUE, contacted |-> << >>, failed |-> FALSE, stored |-> FALSE]
       ELSE IF ~q.enhanced_data.valid
            THEN [cache |-> got.cache,
                  ret |-> AdvancedFallback(supplier_info, web_intelligence, smart_confidence),
                  hit |-> FALSE, contacted |-> q.contacted, failed |-> q.failed, stored |-> FALSE]
            ELSE LET result == AdvancedRecord(supplier_info, web_intelligence, smart_confidence,
                                              q.enhanced_data)
                 IN [cache |-> LlmCacheSet(got.cache, key, result, t), ret |-> result,
                     hit |-> FALSE, contacted |-> q.contacted, failed |-> q.failed,
                     stored |-> TRUE]

\* one call: the coroutine awaits nothing, so it runs in one step
EnhanceCall(supplier_info, web_intelligence, smart_confidence, groq, gemini) ==
    /\ advSteps.calls < MaxAdvancedCalls
    /\ LET r == EnhanceSupplierDataAdvanced(llm_cache, now, supplier_info, web_intelligence,
                                            smart_confidence, groq, gemini)
       IN /\ llm_cache' = r.cache
          /\ advOp' = [key |-> AdvancedCacheKey(supplier_info), at |-> now, hit |-> r.hit,
                       contacted |-> r.contacted, failed |-> r.failed, ret |-> r.ret]
    /\ advSteps' = [advSteps EXCEPT !.calls = @ + 1]
    /\ UNCHANGED now

\* time passes between calls
AdvancedTick(step) ==
    /\ advSteps.ticks < MaxAdvancedTicks
    /\ now' = now + step
    /\ advSteps' = [advSteps EXCEPT !.ticks = @ + 1]
    /\ UNCHANGED <<llm_cache, advOp>>

AdvancedUnchanged == <<cacheVars, limiterVars, endpointVars, verifyVars, enrichVars, searchVars,
                       discoverVars, cancelVars, lockVars, sweepVars, managerVars, bucketVars,
                       adaptiveVars, scoringVars>>

NextAdvanced ==
    \/ \E supplier_info \in AdvancedCandidates,
          web_intelligence \in {NoNumber, Some([certifications |-> {"CE"}])},
          smart_confidence \in {NoNumber, Some(0), Some(8000)},
          groq \in AdvancedResponses, gemini \in AdvancedResponses :
          EnhanceCall(supplier_info, web_intelligence, smart_confidence, groq, gemini)
             /\ UNCHANGED AdvancedUnchanged
    \/ \E step \in {1, LlmCacheTtl - 1} :
          AdvancedTick(step) /\ UNCHANGED AdvancedUnchanged

\* =================================================================
\* initial state and specifications
\* =================================================================
vars == <<now, cache, lastSet, cacheOp, requests, attempts, rlOp, epLog, epOp,
          vPc, vCands, vI, vTasks, vOut, vRet, ePc, eCand, eLog, eRes, ePrev,
          sPc, sQ, sMax, sIdx, sAll, sCalls, sRet, sStart, sEnd,
          dPc, dReq, dHits, dCands, dVerified, dFiltered, dRanked, dRaised, dResps, dRet,
          vCancel, lkHolder, lkWaiters, lkTask, lkSeq, lkOp,
          appState, swPc, swWake, swHist, swEnd, mgr, gCall, gTask, gCalls, mgrOp,
          bucket, bkHolder, bkWaiters, bkTask, bkOp, adaptive, aOp, aSteps,
          rank, filt, llm_cache, advOp, advSteps>>

Init ==
    /\ now = 0
    /\ cache = << >>
    /\ lastSet = [k \in Keys |-> NoSet]
    /\ cacheOp = [op |-> "init"]
    /\ requests = [k \in Keys |-> << >>]
    /\ attempts = [k \in Keys |-> << >>]
    /\ rlOp = [op |-> "init"]
    /\ epLog = [k \in Keys |-> << >>]
    /\ epOp = [op |-> "init"]
    /\ vPc = "idle"
    /\ vCands = << >>
    /\ vI = 0
    /\ vTasks = << >>
    /\ vOut = << >>
    /\ vRet = NoResult
    /\ ePc = "idle"
    /\ eCand = NoResult
    /\ eLog = << >>
    /\ eRes = NoResult
    /\ ePrev = NoResult
    /\ sPc = "idle"
    /\ sQ = 0
    /\ sMax = 0
    /\ sIdx = 0
    /\ sAll = << >>
    /\ sCalls = << >>
    /\ sRet = NoResult
    /\ sStart = 0
    /\ sEnd = 0
    /\ dPc = "idle"
    /\ dReq = NoResult
    /\ dHits = << >>
    /\ dCands = << >>
    /\ dVerified = << >>
    /\ dFiltered = << >>
    /\ dRanked = << >>
    /\ dRaised = "none"
    /\ dResps = << >>
    /\ dRet = NoResult
    /\ vCancel = [requested |-> FALSE]
    /\ lkHolder = None
    /\ lkWaiters = << >>
    /\ lkTask = [t \in {"t1", "t2", "t3", "t4"} |-> [pc |-> "idle"]]
    /\ lkSeq = << >>
    /\ lkOp = [name |-> None]
    /\ appState = "starting"
    /\ swPc = "not_started"
    /\ swWake = 0
    /\ swHist = << >>
    /\ swEnd = "none"
    /\ mgr = [hit_count |-> 0, miss_count |-> 0, error_count |-> 0]
    /\ gCall = NoResult
    /\ gTask = [t \in ManagerTasks |-> IdleCall]
    /\ gCalls = 0
    /\ mgrOp = NoResult
    /\ bucket = NoResult
    /\ bkHolder = None
    /\ bkWaiters = << >>
    /\ bkTask = [t \in {"t1", "t2"} |-> [pc |-> "idle"]]
    /\ bkOp = NoResult
    /\ adaptive = NoResult
    /\ aOp = NoResult
    /\ aSteps = [ticks |-> 0, adjustments |-> 0]
    /\ rank = NoResult
    /\ filt = NoResult
    /\ llm_cache = [k \in AdvancedCacheKeys |-> NoResult]
    /\ advOp = NoResult
    /\ advSteps = [calls |-> 0, ticks |-> 0]

Next ==
    \/ NextCache \/ NextLimiter \/ NextEndpoint \/ NextVerify \/ NextEnrich \/ NextSearch
    \/ NextAggregate \/ NextDiscover \/ NextCancel \/ NextLock \/ NextSweep
    \/ NextManager \/ NextBucket \/ NextAdaptive \/ NextScoring
    \/ NextAdvanced

Spec == Init /\ [][Next]_vars
SpecCache == Init /\ [][NextCache]_vars
SpecLimiter == Init /\ [][NextLimiter]_vars
SpecEndpoint == Init /\ [][NextEndpoint]_vars
SpecVerify == Init /\ [][NextVerify]_vars
SpecEnrich == Init /\ [][NextEnrich]_vars
SpecSearch == Init /\ [][NextSearch]_vars
SpecAggregate == Init /\ [][NextAggregate]_vars
SpecDiscover == Init /\ [][NextDiscover]_vars
SpecCancel == Init /\ [][NextCancel]_vars
SpecLock == Init /\ [][NextLock]_vars
SpecSweep == Init /\ [][NextSweep]_vars
\* the event loop runs a task that is ready and fires a timer that is due
SweepFairness ==
    /\ WF_vars(SweepWakeStep)
    /\ WF_vars(SweepCycleStep)
    /\ WF_vars(SweepCancelledStep)
SpecSweepFair == SpecSweep /\ SweepFairness
SpecManager == Init /\ [][NextManager]_vars
SpecBucket == Init /\ [][NextBucket]_vars
SpecAdaptive == Init /\ [][NextAdaptive]_vars
SpecScoring == Init /\ [][NextScoring]_vars
SpecAdvanced == Init /\ [][NextAdvanced]_vars

\* =================================================================
\* Claims
\* =================================================================

\* C1: a get returns the value of the most recent set of that key exactly when
\* the current time is strictly before that set's time + ttl; otherwise (never
\* set, deleted, cleared, swept, expired) it is a miss, and after the get the
\* key has no entry.
C1_GetOnlyLiveLatestSet ==
    cacheOp.op = "get" =>
        LET s == lastSet[cacheOp.key] IN
        IF s.set /\ now < s.at + s.ttl
        THEN cacheOp.result = s.value
        ELSE cacheOp.result = Miss /\ cacheOp.key \notin DOMAIN cache

\* a get at the very instant an unswept entry expires: miss and purge
C1_Witness ==
    /\ cacheOp.op = "get"
    /\ lastSet[cacheOp.key].set
    /\ lastSet[cacheOp.key].ttl > 0
    /\ now = lastSet[cacheOp.key].at + lastSet[cacheOp.key].ttl
    /\ cacheOp.result = Miss

\* the admitted timestamps of key k inside the closed interval [t - window, t]
AdmittedIn(k, t) ==
    {i \in DOMAIN attempts[k] :
        /\ attempts[k][i].ok
        /\ attempts[k][i].t >= t - WindowSeconds
        /\ attempts[k][i].t <= t}

\* C2: for every key and every instant t, at most max_requests admitted
\* requests have their timestamp in the trailing interval [t - window, t].
C2_WindowBound ==
    \A k \in Keys : \A t \in 0..MaxTime :
        Cardinality(AdmittedIn(k, t)) <= MaxRequests

\* a key was filled, turned a request away, and admitted again later
C2_Witness ==
    \E k \in Keys : \E i, j \in DOMAIN attempts[k] :
        /\ i < j
        /\ ~attempts[k][i].ok
        /\ attempts[k][j].ok
        /\ Cardinality(AdmittedIn(k, attempts[k][i].t)) = MaxRequests

\* the admitted calls of key k before call i that are not older than the
\* window start of call i
RemainingBefore(k, i) ==
    {j \in 1..(i - 1) :
        /\ attempts[k][j].ok
        /\ attempts[k][j].t >= attempts[k][i].t - WindowSeconds}

\* max_requests + 1 calls on key k, all less than one window after the first
Rapid(k) ==
    /\ Len(attempts[k]) = MaxRequests + 1
    /\ now - attempts[k][1].t < WindowSeconds

\* C3: a call is admitted iff fewer than max_requests admitted timestamps of
\* its own key remain in the window (rejected calls and other keys do not
\* count); of max_requests + 1 rapid calls the first max_requests are admitted,
\* the last is rejected, and get_reset_time is then oldest + window - now > 0.
C3_AdmitIffBelowLimit ==
    /\ \A k \in Keys : \A i \in DOMAIN attempts[k] :
          attempts[k][i].ok <=> (Cardinality(RemainingBefore(k, i)) < MaxRequests)
    /\ \A k \in Keys : Rapid(k) =>
          /\ \A i \in 1..MaxRequests : attempts[k][i].ok
          /\ ~attempts[k][MaxRequests + 1].ok
    /\ \A k \in Keys :
          (rlOp.op = "get_reset_time" /\ rlOp.key = k /\ Rapid(k)) =>
              /\ rlOp.result = Some(attempts[k][1].t + WindowSeconds - now)
              /\ rlOp.result[1] > 0

\* get_reset_time asked right after the rejected call of a rapid series, while
\* the other key has traffic of its own
C3_Witness ==
    \E k \in Keys :
        /\ rlOp.op = "get_reset_time" /\ rlOp.key = k
        /\ Rapid(k)
        /\ \E o \in Keys \ {k} : attempts[o] # << >>

\* the earlier executions of the endpoint for key k strictly inside the window
ExecutedInWindow(k) ==
    {i \in 1..(Len(epLog[k]) - 1) :
        epLog[k][i].status = 200 /\ epLog[k][i].t > now - EndpointWindow}

\* C4: once M requests of one client to one path were executed within the
\* window, the next one inside the window is answered 429 with limit, window
\* and retry_after, and is not executed.
C4_RejectsAfterLimit ==
    (epOp.op = "call" /\ Cardinality(ExecutedInWindow(epOp.key)) >= EndpointLimit) =>
        /\ epOp.status = 429
        /\ epOp.detail.limit = EndpointLimit
        /\ epOp.detail.window = EndpointWindow
        /\ epOp.detail.retry_after # NoNumber

\* the enrichment calls that are scheduled or running
InFlightCalls == {j \in DOMAIN vTasks : InFlight(vTasks[j])}
\* the number of the consecutive batch of five that candidate j falls in
BatchNo(j) == (j - 1) \div BatchSize

\* C5: candidates are handled in consecutive batches of at most 5; the calls
\* of a batch are started together, no call of a later batch exists before
\* every call of the earlier batches has resolved, and at most 5 calls are in
\* flight.
C5_BatchesOfFive ==
    /\ Cardinality(InFlightCalls) <= BatchSize
    /\ \A j, h \in DOMAIN vTasks :
          (BatchNo(j) = BatchNo(h) /\ vTasks[j].st # "new") => vTasks[h].st # "new"
    /\ \A j, h \in DOMAIN vTasks :
          (BatchNo(h) < BatchNo(j) /\ vTasks[j].st # "new") => Resolved(vTasks[h])
    /\ \A j \in InFlightCalls : vPc = "gather" /\ BatchNo(j) = vI \div BatchSize

\* a call of the second batch is running, every call of the first has resolved
C5_Witness ==
    /\ Len(vCands) > BatchSize
    /\ vPc = "gather"
    /\ vI = BatchSize
    /\ vTasks[BatchSize + 1].st = "running"
    /\ \A j \in 1..BatchSize : Resolved(vTasks[j])

AllWellFormed == \A j \in DOMAIN vCands : vCands[j].name # None

\* C6: with well-formed candidates, a candidate whose providers both fail
\* still yields a record (the fallback, unverified), the others are enriched,
\* the list has one record per candidate and nothing is raised.
C6_BatchIsolation ==
    (vPc = "done" /\ AllWellFormed) =>
        /\ vRet.kind = "returned"
        /\ Len(vRet.val) = Len(vCands)
        /\ \A j \in DOMAIN vCands :
              /\ vTasks[j].st = "returned"
              /\ vTasks[j].how = "raise" =>
                    /\ vRet.val[j].name = vCands[j].name
                    /\ vRet.val[j].confidence_score = FallbackConfidenceScore
                    /\ vRet.val[j].verification_status = "unverified"
              /\ vTasks[j].how = "full" =>
                    /\ vRet.val[j].verification_status = "verified"
                    /\ vRet.val[j].certifications = FullPayload.certifications

\* five candidates, both providers fail for the third only
C6_Witness ==
    /\ vPc = "done"
    /\ Len(vCands) = BatchSize
    /\ AllWellFormed
    /\ \A j \in DOMAIN vCands : vTasks[j].how = (IF j = 3 THEN "raise" ELSE "full")

RECURSIVE ReturnedUpTo(_, _)
\* the results of the calls 1..j that returned, in candidate order
ReturnedUpTo(tasks, j) ==
    IF j = 0 THEN << >>
    ELSE IF tasks[j].st = "returned"
         THEN Append(ReturnedUpTo(tasks, j - 1), tasks[j].res)
         ELSE ReturnedUpTo(tasks, j - 1)

\* C7: the returned list is exactly the results of the calls that did not
\* raise, in candidate order; a raising call leaves no element and raises
\* nothing further, and every later candidate is still processed.
C7_RaisingOmitted ==
    /\ vOut = ReturnedUpTo(vTasks, IF vPc = "gather" THEN vI ELSE Min2(vI + BatchSize, Len(vCands)))
    /\ vPc = "done" =>
          /\ vRet.kind = "returned"
          /\ vRet.val = ReturnedUpTo(vTasks, Len(vCands))
          /\ \A j \in DOMAIN vTasks : Resolved(vTasks[j])

\* the third call raised, and the sixth (next batch) was still processed
C7_Witness ==
    /\ vPc = "done"
    /\ Len(vCands) > BatchSize
    /\ vTasks[3].st = "raised"
    /\ vTasks[BatchSize + 1].st = "returned"
    /\ Len(vRet.val) = Len(vCands) - 1

\* what the claim counts as a provider failure: the call raised (timeout,
\* quota) or the response was malformed
FailureEvents == {"raise", "nojson", "badjson", "invalid"}
Positions(e) == {i \in DOMAIN eLog : eLog[i] = e}

\* C8: the primary is called first; the secondary at most once and only
\* after the primary failed; the fallback only after both the primary and the
\* secondary failed; no secondary call when the primary succeeded.
C8_ProviderOrder ==
    (ePc # "idle" /\ eCand.name # None) =>
    /\ eLog[1] = "primary"
    /\ Cardinality(Positions("secondary")) <= 1
    /\ \A i \in Positions("secondary") : i = 3 /\ eLog[2] \in FailureEvents
    /\ \A i \in Positions("fallback") :
          /\ eLog[2] \in FailureEvents
          /\ \E h \in Positions("secondary") : h < i /\ eLog[h + 1] \in FailureEvents
    /\ (Len(eLog) >= 2 /\ eLog[2] = "full") => Positions("secondary") = {}

\* C9: the fallback record copies the candidate's name, location and
\* description and has confidence 0.3, status unverified, no certifications.
C9_FallbackCopies ==
    (ePc = "done" /\ Positions("fallback") # {} /\ eRes.kind = "returned") =>
        /\ eRes.val.name = eCand.name
        /\ eRes.val.location = eCand.location
        /\ "description" \in DOMAIN eCand => eRes.val.description = eCand.description
        /\ eRes.val.confidence_score = FallbackConfidenceScore
        /\ eRes.val.verification_status = "unverified"
        /\ eRes.val.certifications = << >>

RECURSIVE Gathered(_)
\* the results of the provider calls that did not fail, concatenated in call order
Gathered(calls) ==
    IF calls = << >> THEN << >>
    ELSE LET c == calls[Len(calls)] IN
         Gathered(SubSeq(calls, 1, Len(calls) - 1))
            \o (IF c.outcome.raised THEN << >>
                ELSE [i \in DOMAIN c.outcome.items |-> ToSearchResult(c.outcome.items[i])])

\* C10: a failing variant is absorbed: the variants are attempted once each in
\* the fixed order, the results of the successful ones are kept, the call
\* returns (never raises), and when every variant failed it returns [].
C10_VariantFailureAbsorbed ==
    /\ \A i \in DOMAIN sCalls : sCalls[i].variant = i
    /\ sAll = Gathered(sCalls)
    /\ sPc = "done" =>
          /\ Len(sCalls) = NumVariants
          /\ sRet.kind = "returned"
          /\ (\A i \in DOMAIN sCalls : sCalls[i].outcome.raised) => sRet.val = << >>

\* the second variant failed, the first and a later one succeeded, and hits
\* of both are in the aggregate and something is returned
C10_Witness ==
    /\ sPc = "done"
    /\ sCalls[2].outcome.raised
    /\ sCalls[1].outcome.items # << >>
    /\ sCalls[4].outcome.items # << >>
    /\ Len(sAll) = Len(sCalls[1].outcome.items) + Len(sCalls[4].outcome.items)
    /\ sRet.val # << >>

\* the provider calls issued so far and those still outstanding
IssuedCalls == IF sPc = "idle" THEN 0 ELSE sIdx
OutstandingCalls == IssuedCalls - Len(sCalls)

\* C11: the variants are issued one at a time (never more than one provider
\* call outstanding) and every call after the first is issued no sooner than
\* rate_limit_delay after the previous call ended, whatever that call's outcome.
C11_SequentialPaced ==
    /\ OutstandingCalls \in {0, 1}
    /\ OutstandingCalls = 1 <=> sPc = "searching"
    /\ (sPc = "searching" /\ sIdx > 1) => sStart >= sEnd + RateLimitDelay
    /\ sPc = "done" => now >= sEnd + RateLimitDelay

\* the third variant is outstanding, the first call failed, the second
\* succeeded and took time
C11_Witness ==
    /\ sPc = "searching"
    /\ sIdx = 3
    /\ sCalls[1].outcome.raised
    /\ ~sCalls[2].outcome.raised
    /\ sEnd > 1
    /\ sStart = sEnd + RateLimitDelay

\* the orders in which the five per-variant result lists can be appended
ArrivalOrders ==
    {p \in [1..NumVariants -> 1..NumVariants] :
        \A i, j \in 1..NumVariants : i # j => p[i] # p[j]}

\* C12: the list search_suppliers returns is the same for every order in
\* which the per-variant result lists are appended to the aggregate.
C12_OrderIndependent ==
    sPc = "done" =>
        \A p \in ArrivalOrders :
            Finish(AggregateIn(p, sCalls, NumVariants), sQ, sMax) = sRet.val

SameUrl(a, b) == NormUrl(a.url) = NormUrl(b.url)
SameTitle(a, b) == NormTitle(a.title) = NormTitle(b.title)

RECURSIVE IsSubsequence(_, _)
\* a can be obtained from b by deleting elements
IsSubsequence(a, b) ==
    IF a = << >> THEN TRUE
    ELSE IF b = << >> THEN FALSE
    ELSE IF Head(a) = Head(b) THEN IsSubsequence(Tail(a), Tail(b))
    ELSE IsSubsequence(a, Tail(b))

\* two hits that _deduplicate_results takes for duplicates of each other
Duplicates(a, b) == SameUrl(a, b) \/ SameTitle(a, b)

RECURSIVE HitsAt(_, _, _)
\* the hits of a list at the positions K, from position n down, in list order
HitsAt(hits, K, n) ==
    IF n = 0 THEN << >>
    ELSE IF n \in K THEN Append(HitsAt(hits, K, n - 1), hits[n])
    ELSE HitsAt(hits, K, n - 1)

\* out is what is left of hits when every hit that duplicates an earlier
\* hit that was kept is dropped, and no other
FirstKept(out, hits) ==
    \E K \in SUBSET DOMAIN hits :
        /\ Len(out) = Cardinality(K)
        /\ \A i \in K : \A j \in K : j < i => ~Duplicates(hits[i], hits[j])
        /\ \A i \in DOMAIN hits \ K : \E j \in K : j < i /\ Duplicates(hits[i], hits[j])
        /\ out = HitsAt(hits, K, Len(hits))

\* every hit of out is, in hits, the first hit with its normalized URL and
\* the first hit with its normalized title
FirstOfUrlAndOfTitle(out, hits) ==
    \A o \in DOMAIN out :
        \E i \in DOMAIN hits :
            /\ hits[i] = out[o]
            /\ \A j \in 1..(i - 1) : ~Duplicates(hits[j], out[o])

\* C13 as stated: deduplicating twice is deduplicating once; the output is a
\* subsequence of the input in which every hit is the first occurrence of its
\* normalized URL and of its normalized title; no two output hits share a
\* normalized URL or a normalized title.
C13_KeepsFirstOccurrence ==
    LET out == DeduplicateResults(sAll) IN
    /\ DeduplicateResults(out) = out
    /\ IsSubsequence(out, sAll)
    /\ FirstOfUrlAndOfTitle(out, sAll)
    /\ \A i, j \in DOMAIN out : i # j => ~Duplicates(out[i], out[j])

\* C13, amended: deduplicating twice is deduplicating once; the output is a
\* subsequence of the input; a hit is dropped exactly when it shares its
\* normalized URL or its normalized title with an earlier hit that was kept
\* (a hit dropped for one of the two does not reserve the other); no two
\* output hits share a normalized URL or a normalized title.
C13_DedupIdempotent ==
    LET out == DeduplicateResults(sAll) IN
    /\ DeduplicateResults(out) = out
    /\ IsSubsequence(out, sAll)
    /\ FirstKept(out, sAll)
    /\ \A i, j \in DOMAIN out : i # j => ~Duplicates(out[i], out[j])

\* an aggregate with an exact duplicate, a hit whose URL differs from an
\* earlier one only by case and a trailing slash, and a hit whose title
\* differs only by case and blanks; a hit is kept although an earlier hit,
\* dropped for its title, carried the same normalized URL
C13_Witness ==
    /\ sPc = "done"
    /\ \E i, j \in DOMAIN sAll : i < j /\ sAll[i] = sAll[j]
    /\ \E i, j \in DOMAIN sAll :
          i < j /\ SameTitle(sAll[i], sAll[j]) /\ sAll[i].title # sAll[j].title
    /\ \E i, j \in DOMAIN sAll :
          /\ i < j
          /\ SameUrl(sAll[i], sAll[j]) /\ sAll[i].url # sAll[j].url
          /\ \E o \in DOMAIN DeduplicateResults(sAll) : DeduplicateResults(sAll)[o] = sAll[j]
          /\ \A o \in DOMAIN DeduplicateResults(sAll) : DeduplicateResults(sAll)[o] # sAll[i]
    /\ Len(DeduplicateResults(sAll)) >= 2
    /\ Len(DeduplicateResults(sAll)) < Len(sAll)

\* C14: a call for a candidate that an earlier call enriched within the TTL
\* (here: at the same instant) is served from the cache: no provider is
\* contacted for it, and what it returns is the record the earlier call
\* returned.
C14_CacheBeforeProvider ==
    (ePc # "idle" /\ ePrev # NoResult /\ ePrev.cand = eCand /\ ePrev.at = now) =>
        /\ \A i \in DOMAIN eLog : eLog[i] \notin {"primary", "secondary"}
        /\ ePc = "done" => eRes = [kind |-> "returned", val |-> ePrev.res]

\* C15: discover_suppliers always returns a response, whichever stage raised;
\* when a stage raised, the response has no suppliers and total_found = 0.
C15_NeverPropagates ==
    dPc = "done" =>
        /\ dRet.kind = "returned"
        /\ dRet.val.search_query = dReq.product
        /\ dRaised # "none" => dRet.val.suppliers = << >> /\ dRet.val.total_found = 0

\* the ranking raised after two suppliers had been verified and kept
C15_Witness ==
    /\ dPc = "done"
    /\ dRaised = "rank"
    /\ Len(dFiltered) = 2
    /\ dRet.val.total_found = 0

\* C16: a request with a location filter, one search result, one candidate
\* whose location contains the requested location or is the sentinel, both
\* providers failing: _verify_suppliers yields one record with confidence 0.3
\* and status unverified, and the list discover_suppliers returns has length 1.
C16_EndToEnd ==
    (/\ dPc = "done" /\ dRaised = "none"
     /\ Truthy(dReq.location)
     /\ Len(dHits) = 1 /\ Len(dCands) = 1
     /\ \/ Contains(Chars(dReq.location), Chars(dCands[1].location))
        \/ dCands[1].location = LocationNotSpecified
     /\ dResps = << <<"raise", "raise">> >>)
    => /\ Len(VerifySuppliers(dCands, dResps)) = 1
       /\ VerifySuppliers(dCands, dResps)[1].confidence_score = FallbackConfidenceScore
       /\ VerifySuppliers(dCands, dResps)[1].verification_status = "unverified"
       /\ Len(dRet.val.suppliers) = 1

\* C17: once the caller is cancelled during a batch, no call of a later
\* batch is ever started, no call that was in flight completes normally, and
\* when the cancellation has gone through every such call is cancelled (none
\* is left pending), CancelledError leaves _verify_suppliers, and the cache
\* and the limiter are as they were (the calls hold no lock and no slot).
C17_CancellationPropagates ==
    vCancel.requested =>
        /\ \A j \in DOMAIN vTasks : BatchNo(j) > vCancel.batch => vTasks[j].st = "new"
        /\ \A j \in vCancel.inflight : vTasks[j].st \in {"scheduled", "running", "cancelled"}
        /\ vPc \in {"cancelling", "cancelled"}
        /\ vPc = "cancelled" =>
              /\ \A j \in vCancel.inflight : vTasks[j].st = "cancelled"
              /\ \A j \in DOMAIN vTasks : ~InFlight(vTasks[j])
              /\ vRet = [kind |-> "raised", val |-> CancelledError]
        /\ cache = << >>
        /\ \A k \in Keys : requests[k] = << >>

\* the cancellation came during the first of two batches, after one call had
\* returned, one had begun and the others had not; it has gone through
C17_Witness ==
    /\ vPc = "cancelled"
    /\ Len(vCands) > BatchSize
    /\ vCancel.batch = 0
    /\ vTasks[1].st = "returned"
    /\ vTasks[2].how = "cancelled"
    /\ Cardinality(vCancel.inflight) = BatchSize - 1
    /\ vTasks[BatchSize + 1].st = "new"

\* the tasks inside the critical section of a cache call
InCritical == {t \in LockTasks : lkTask[t].pc \in {"locked", "write"}}

\* C18: at most one cache call is inside its critical section at a time, and
\* it is the lock holder; every call returns what it would return had the
\* calls run one after the other in the order they entered, and between calls
\* the entry map is the one that sequential run leaves.
C18_Serialized ==
    /\ Cardinality(InCritical) <= 1
    /\ \A t \in InCritical : lkHolder = t
    /\ lkOp.name # None => lkOp.result = lkOp.expected
    /\ (\A t \in LockTasks : lkTask[t].pc # "write") => cache = lkSeq

\* a get that found its entry expired removed it while another task waited
\* for the lock with a set of a key that is not in the map
C18_Witness ==
    /\ lkOp.name = "get"
    /\ lkOp.change = "del"
    /\ lkOp.result = Miss
    /\ \E t \in LockTasks :
          /\ lkTask[t].pc = "waiting"
          /\ lkTask[t].call.name = "set"
          /\ lkTask[t].call.key \notin DOMAIN cache

\* C19: a cleanup_expired step removes exactly the entries whose expiry time
\* is at or before the current time, and every other entry keeps its key, its
\* value, its expiry time and its creation time.
C19_SweepExact ==
    [][cacheOp'.op = "cleanup_expired" =>
          /\ DOMAIN cache' = {k \in DOMAIN cache : ~(cache[k].expires <= now)}
          /\ \A k \in DOMAIN cache' :
                /\ cache'[k].value = cache[k].value
                /\ cache'[k].expires = cache[k].expires
                /\ cache'[k].created = cache[k].created
          /\ cacheOp'.removed = {k \in DOMAIN cache : cache[k].expires <= now}]_vars

\* a sweep has just removed an entry that expired at this very instant and
\* kept an entry that is still live
C19_Witness ==
    /\ cacheOp.op = "cleanup_expired"
    /\ \E k \in cacheOp.removed :
          lastSet[k].set /\ lastSet[k].at + lastSet[k].ttl = now /\ lastSet[k].ttl > 0
    /\ \E k \in DOMAIN cache : cache[k].expires > now

\* C20: a failed sweep cycle never ends the task: the error is absorbed, the
\* task sleeps for the retry interval, and unless the application shuts down
\* another cycle is then attempted; the task ends only by the cancellation of
\* the lifespan shutdown: it has ended exactly when it was cancelled, that
\* only after the shutdown began, and the shutdown completes only then.
C20_SweepNeverStops ==
    /\ [](swPc = "ended" <=> swEnd = "cancelled")
    /\ [](swPc = "ended" => appState \in {"stopping", "stopped"})
    /\ [](appState = "stopped" => swPc = "ended")
    /\ []((swPc # "ended" /\ swHist # << >> /\ swHist[Len(swHist)] = "raises")
             => (swPc \in {"backoff", "sweeping"} /\ swEnd = "none"))
    /\ \A n \in 1..MaxSweeps :
          (swPc = "backoff" /\ Len(swHist) = n)
             ~> ((swPc = "sweeping" /\ Len(swHist) = n) \/ swEnd = "cancelled")

\* a second sweep cycle ran, and removed an expired entry, after the first
\* one had failed
C20_Witness ==
    /\ Len(swHist) >= 2
    /\ swHist[1] = "raises"
    /\ swHist[2] = "ok"
    /\ swEnd = "none"
    /\ cacheOp.op = "cleanup_expired" /\ cacheOp.removed # {}

\* the invocations of func in the last get_or_set call
FuncInvocations == Cardinality({i \in DOMAIN gCall.log : gCall.log[i] = "func"})

\* C21: when cache.get or cache.set raises during get_or_set, error_count is
\* incremented by one, the cache's exception never reaches the caller, and
\* what the caller gets is what the func invocation made by the handler gives:
\* its value, and the call raises only if that invocation of func itself raises.
C21_CacheFailureAbsorbed ==
    (gCall # NoResult /\ (gCall.getRaised \/ gCall.setRaised)) =>
        /\ gCall.errors # << >>
        /\ gCall.errors[2] = gCall.errors[1] + 1
        /\ gCall.log[Len(gCall.log)] = "func"
        /\ gCall.handler # NoResult
        /\ LET f == gCall.handler
           IN IF f.raised
              THEN gCall.ret = [kind |-> "raised", val |-> FuncError]
              ELSE gCall.ret = [kind |-> "returned", val |-> f.val]

\* cache.set raised after a miss, and the caller still got a value of func
C21_Witness ==
    /\ gCall # NoResult
    /\ gCall.setRaised
    /\ gCall.ret.kind = "returned"
    /\ gCall.ret.val = "v1"
    /\ mgr.error_count = 1

\* C29: one get_or_set call invokes func at most once: not at all on a cache
\* hit, exactly once on a miss, also when func raises.
C29_FuncAtMostOnce ==
    gCall # NoResult =>
        /\ FuncInvocations <= 1
        /\ gCall.hit => FuncInvocations = 0
        /\ (~gCall.hit /\ ~gCall.getRaised) => FuncInvocations = 1

\* C22: under any interleaving of concurrent consume(n) calls with n >= 0 the
\* token count stays within [0, capacity]; a consume call first refills to
\* min(capacity, tokens + elapsed * rate), then answers true and takes exactly
\* n when that is at least n, and otherwise answers false and takes nothing.
C22_TokenBucket ==
    /\ bucket # NoResult => (0 <= bucket.tokens /\ bucket.tokens <= bucket.capacity)
    /\ Cardinality({t \in BucketTasks : bkTask[t].pc \in {"locked", "refilled"}}) <= 1
    /\ bkOp # NoResult =>
          LET full == bkOp.before + bkOp.elapsed * bucket.refill_rate
              refilled == IF full < bucket.capacity THEN full ELSE bucket.capacity
          IN /\ bkOp.refilled = refilled
             /\ bkOp.result = (refilled >= bkOp.n)
             /\ bkOp.after = IF refilled >= bkOp.n THEN refilled - bkOp.n ELSE refilled

\* a consume call was refused after a partial refill while the other task
\* waited for the lock, and nothing was taken
C22_Witness ==
    /\ bkOp # NoResult
    /\ ~bkOp.result
    /\ bkOp.elapsed > 0
    /\ bkOp.refilled > bkOp.before
    /\ bkOp.after = bkOp.refilled
    /\ \E t \in BucketTasks : bkTask[t].pc = "waiting"

\* C23: current_limit stays within [base_limit, max_limit]; a record call
\* adjusts only when a whole adjustment interval has passed since the last
\* adjustment (and a request is then always counted); the adjustment takes
\* the limit times 0.8, not below base_limit, when more than 10% of the
\* interval's requests were errors, times 1.2, not above max_limit, when
\* fewer than 5% were, leaves it otherwise, and resets both counters.
C23_AdaptiveLimit ==
    /\ adaptive # NoResult =>
          /\ adaptive.base_limit <= adaptive.current_limit
          /\ adaptive.current_limit <= adaptive.max_limit
    /\ aOp # NoResult =>
          LET total == aOp.successes + aOp.errors
              scaled == IF 10 * aOp.errors > total THEN (aOp.limit * 4) \div 5
                        ELSE IF 20 * aOp.errors < total THEN (aOp.limit * 6) \div 5
                        ELSE aOp.limit
              clamped == IF scaled < adaptive.base_limit THEN adaptive.base_limit
                         ELSE IF scaled > adaptive.max_limit THEN adaptive.max_limit
                         ELSE scaled
          IN /\ aOp.adjusted <=> aOp.elapsed >= AdjustmentInterval
             /\ total >= 1
             /\ aOp.adjusted =>
                   /\ adaptive.current_limit = clamped
                   /\ (aOp.limit * 4) % 5 = 0 /\ (aOp.limit * 6) % 5 = 0
                   /\ adaptive.success_count = 0 /\ adaptive.error_count = 0
                   /\ adaptive.last_adjustment = aOp.at
             /\ ~aOp.adjusted =>
                   /\ adaptive.current_limit = aOp.limit
                   /\ adaptive.success_count = aOp.successes
                   /\ adaptive.error_count = aOp.errors

\* an interval with one error in ten requests left a limit of 12 unchanged
\* after an earlier interval had raised it from 10
C23_Witness ==
    /\ aOp # NoResult
    /\ aOp.adjusted
    /\ aOp.errors = 1 /\ aOp.successes = 9
    /\ aOp.limit = 12 * LimitScale
    /\ adaptive.current_limit = 12 * LimitScale
    /\ adaptive.max_limit = 100 * LimitScale

\* the score the specification gives a supplier, in millionths: 0.40 of the
\* provider's confidence, 0.20 of the status weight, 0.15 of rating / 5, 0.10
\* of min(certifications / 5, 1), 0.10 for a location match, 0.05 of the
\* specialty overlap, clamped to [0, 1]; confidence, weight and overlap enter
\* in ten-thousandths
WeightedSum(s, request) ==
    LET o == SpecialtyOverlap(s.specialties, request.product)
        total ==
            40 * Nearest(s.confidence_score, MaxConfidence)
            + 20 * VerificationWeights(s.verification_status)
            + 15 * (IF s.rating = NoNumber THEN 0 ELSE s.rating[1] * 200)
            + 10 * (IF Len(s.certifications) >= 5 THEN 10000 ELSE Len(s.certifications) * 2000)
            + 10 * (IF /\ Truthy(request.location) /\ Truthy(s.location)
                       /\ LocationMatches(s.location, request.location)
                    THEN 10000 ELSE 0)
            + 5 * (IF s.specialties = << >> \/ o.total_words = 0 THEN 0
                   ELSE (o.overlap * 10000) \div o.total_words)
    IN IF total > 100 * MaxConfidence THEN 100 * MaxConfidence ELSE total

\* b is a rearrangement of a
IsRearrangement(a, b) ==
    /\ Len(a) = Len(b)
    /\ \E p \in [DOMAIN a -> DOMAIN b] :
          /\ \A i, j \in DOMAIN a : i # j => p[i] # p[j]
          /\ \A i \in DOMAIN a : a[i] = b[p[i]]

\* C24: after _rank_suppliers every supplier carries the recomputed weighted
\* sum, clamped to [0, 1], as its confidence_score (the float the code
\* computes is the sum to the nearest millionth and is never above 1.0) and is
\* otherwise as it was; the score a provider reported enters only as the 0.40
\* term; the list returned holds the suppliers given.
C24_ScoreRecomputed ==
    rank # NoResult =>
        /\ Len(rank.suppliers) = Len(rank.given)
        /\ IsRearrangement(rank.out, rank.suppliers)
        /\ \A j \in DOMAIN rank.given :
              /\ rank.suppliers[j] = [rank.given[j] EXCEPT
                                        !.confidence_score = rank.suppliers[j].confidence_score]
              /\ Nearest(rank.suppliers[j].confidence_score, 100 * MaxConfidence)
                    = WeightedSum(rank.given[j], rank.request)
              /\ ~FloatLess(MaxConfidenceScore, rank.suppliers[j].confidence_score)

\* a supplier reported at full confidence by the provider but pending,
\* unrated and without certifications left the ranking with a lower score
C24_Witness ==
    /\ rank # NoResult
    /\ rank.given[1].confidence_score = MaxConfidenceScore
    /\ rank.given[1].verification_status = "pending"
    /\ rank.given[1].certifications = << >>
    /\ rank.given[2] = rank.given[1]
    /\ FloatLess(rank.out[1].confidence_score, MaxConfidenceScore)
    /\ FloatLess(FloatZero, rank.out[1].confidence_score)

\* the score _rank_suppliers gave the supplier with these certifications
ScoreOf(certifications) ==
    rank.out[CHOOSE i \in DOMAIN rank.out : rank.out[i].certifications = certifications]
        .confidence_score

\* C25: of two suppliers that differ only in the number of certifications, the
\* one with more never scores lower; the scores are equal once the smaller
\* number has reached the cap of five or the smaller score the cap of 1.
C25_CertificationMonotone ==
    rank # NoResult =>
        LET a == rank.given[1]
            b == rank.given[2]
        IN (/\ [a EXCEPT !.certifications = << >>] = [b EXCEPT !.certifications = << >>]
            /\ Len(a.certifications) < Len(b.certifications))
           => /\ ~FloatLess(ScoreOf(b.certifications), ScoreOf(a.certifications))
              /\ Len(a.certifications) >= 5
                    => ScoreOf(b.certifications) = ScoreOf(a.certifications)
              /\ ScoreOf(a.certifications) = MaxConfidenceScore
                    => ScoreOf(b.certifications) = MaxConfidenceScore
              /\ Len(b.certifications) <= 5
                    => FloatLess(ScoreOf(a.certifications), ScoreOf(b.certifications))
                       \/ ScoreOf(a.certifications) = MaxConfidenceScore

\* five against six certifications gave equal scores, ranked in input order
C25_Witness ==
    /\ rank # NoResult
    /\ Len(rank.given[1].certifications) = 5
    /\ Len(rank.given[2].certifications) = 6
    /\ [rank.given[1] EXCEPT !.certifications = << >>]
         = [rank.given[2] EXCEPT !.certifications = << >>]
    /\ rank.out[1].confidence_score = rank.out[2].confidence_score
    /\ rank.out[1].certifications = rank.given[1].certifications

\* ordered is scored in descending score order, equal scores in scored's order
StableDescending(ordered, scored) ==
    /\ Len(ordered) = Len(scored)
    /\ \E p \in [DOMAIN ordered -> DOMAIN scored] :
          /\ \A i, j \in DOMAIN ordered : i # j => p[i] # p[j]
          /\ \A i \in DOMAIN ordered : ordered[i] = scored[p[i]]
          /\ \A i, j \in DOMAIN ordered : i < j =>
                \/ FloatLess(ordered[j].confidence_score, ordered[i].confidence_score)
                \/ /\ ordered[i].confidence_score = ordered[j].confidence_score
                   /\ p[i] < p[j]

\* C26: the list discover_suppliers returns is the first max_results of the
\* filtered suppliers (dFiltered carries their final scores, in extraction
\* order) in descending order of final score, equal scores in extraction
\* order; it is never longer than max_results and total_found is never
\* smaller than its length.
C26_FirstMaxResults ==
    (dPc = "done" /\ dRet.kind = "returned") =>
        /\ Len(dRet.val.suppliers) <= dReq.max_results
        /\ dRet.val.total_found >= Len(dRet.val.suppliers)
        /\ (dRaised = "none" /\ dHits # << >>) =>
                 /\ dFiltered = ScoredSuppliers(ApplyFilters(VerifySuppliers(dCands, dResps), dReq), dReq)
                 /\ StableDescending(dRanked, dFiltered)
                 /\ dRet.val.total_found = Len(dRanked)
                 /\ Len(dRet.val.suppliers) = Min2(dReq.max_results, Len(dRanked))
                 /\ \A i \in DOMAIN dRet.val.suppliers : dRet.val.suppliers[i] = dRanked[i]

\* two different suppliers with equal final scores and room for one: the one
\* extracted first was returned, and total_found counts both
C26_Witness ==
    /\ dPc = "done" /\ dRaised = "none"
    /\ dReq.max_results = 1
    /\ Len(dFiltered) = 2
    /\ dFiltered[1] # dFiltered[2]
    /\ dRanked[1].confidence_score = dRanked[2].confidence_score
    /\ Len(dRet.val.suppliers) = 1
    /\ dRet.val.suppliers[1].name = dFiltered[1].name
    /\ dRet.val.total_found = 2

\* is the supplier's location unspecified: empty, or the sentinel that
\* _extract_location gives when it found none
LocationUnspecified(location) == location = "" \/ location = LocationNotSpecified

\* C27: under a requested location, _apply_filters keeps every supplier whose
\* location is empty or the unspecified sentinel (no other filter being
\* requested), whatever the requested location is.
C27_UnspecifiedLocationPasses ==
    (/\ filt # NoResult
     /\ Truthy(filt.request.location)
     /\ filt.request.certifications = << >>
     /\ filt.request.min_rating = NoNumber)
    => \A j \in DOMAIN filt.suppliers :
          LocationUnspecified(filt.suppliers[j].location)
             => \E i \in DOMAIN filt.out : filt.out[i] = filt.suppliers[j]

\* do the certifications held include every requested one, case-insensitively
HoldsEvery(held, requested) ==
    \A i \in DOMAIN requested : \E k \in DOMAIN held :
        LowerText(Chars(requested[i])) = LowerText(Chars(held[k]))

\* C28: when the request lists certifications, _apply_filters keeps a
\* supplier only if it holds every requested certification.
C28_CertificationSubset ==
    (filt # NoResult /\ filt.request.certifications # << >>)
    => \A i \in DOMAIN filt.out :
          HoldsEvery(filt.out[i].certifications, filt.request.certifications)

\* C30: when _enhance_supplier_data_advanced has contacted both providers
\* and both failed, the record it built from the empty payload is not in the
\* enrichment cache after the call.
C30_DegradedNotCached ==
    (advOp # NoResult /\ ~advOp.hit /\ advOp.failed
     /\ advOp.contacted = <<"groq", "gemini">>)
    => llm_cache[advOp.key] = NoResult

====
